---- MODULE Spec2Model ----
(***************************************************************************)
(* Edge-detection event pipeline of IoT_Project (src/edge_detection):      *)
(* StationaryTracker, ParkingTracker, RedLightViolationTracker and the     *)
(* per-frame loop of DetectionRunner.process_video.                        *)
(*                                                                         *)
(* Conventions                                                             *)
(*  - wall-clock time (datetime.now()) is an integer number of seconds and *)
(*    never runs backwards;                                                *)
(*  - a quotient a / b of the code is the pair <<a, b>> (b > 0), compared  *)
(*    with an integer k by cross-multiplication;                           *)
(*  - Python's None is the empty tuple, a dict is a function whose DOMAIN  *)
(*    is its key set, uuid4() is a draw from a counter of fresh values.    *)
(***************************************************************************)
EXTENDS Integers, Sequences, FiniteSets, TLC

VARIABLES
    parking_tracker,              \* ParkingTracker: zone_tracked_ids, seen_track_ids, recent_exits
    stationary_tracker,           \* StationaryTracker: track_state
    red_light_violation_tracker,  \* RedLightViolationTracker: violations, crossed_vehicles
    now,                          \* last reading of datetime.now(), seconds
    uuids,                        \* number of uuid4() values drawn so far
    frame_count,                  \* process_video: frame index of the last processed frame
    video_fps_configured,         \* process_video: a frame of the video has been processed
    traffic_monitoring_tracker,   \* TrafficMonitoringTracker: interval_frames, last_event_frame
    events,                       \* events handed to DetectionRunner.send_event, in order
    ret,                          \* the last tracker call: its arguments and what it returned
    sessions_log,                 \* history: per event id drawn, the session it was given to
    violations_log,               \* history: the violations check_violation has returned
    backend_sender,               \* BackendSender.send_event: where the call stands
    events_sent,                  \* DetectionRunner.events_sent
    events_dropped,               \* DetectionRunner.events_dropped
    send_log,                     \* history: per event, its POST attempts, sleeps and result
    video,                        \* main: index in video_files of the video being processed
    track_log,                    \* history: per track, the last call of update for it
    emit_log,                     \* history: the polls of should_send_event answered True
    double_parking_violations,    \* process_video: the local dict of the tracks that double-parked
    video_raised,                 \* the exception that ended process_video, "none" while it runs
    max_retries                   \* BackendSender.max_retries

vars == <<parking_tracker, stationary_tracker, red_light_violation_tracker,
          now, uuids, frame_count, video_fps_configured, traffic_monitoring_tracker,
          events, ret, sessions_log, violations_log,
          backend_sender, events_sent, events_dropped, send_log, video, track_log,
          emit_log, double_parking_violations, video_raised, max_retries>>

\* the variables only the later specifications change
aux_vars == <<emit_log, double_parking_violations, video_raised, max_retries>>

\* the variables of the delivery of events
sender_vars == <<backend_sender, events_sent, events_dropped, send_log>>

----------------------------------------------------------------------------
(* Bounds of the model *)

MaxNow == 30              \* the clock is read up to this many seconds
RedLightMaxNow == 60      \* the same, where only the red-light tracker is called
MaxUuids == 2             \* at most this many parking sessions are opened
MaxFrame == 5             \* frames 0..MaxFrame are processed
ExitDebounceFrames == 2   \* ParkingTracker(exit_debounce_frames=...)
ParkingThresholdSec == 2  \* Config "parking_stationary_duration"
FPS == 1                  \* Config "fps", handed to StationaryTracker
ClockStep == 15           \* seconds by which the clock advances at a time
EpsilonPx == 10           \* Config "stationary_epsilon_px"
TrafficMonitoringInterval == 3  \* Config "traffic_monitoring_interval", seconds
MaxRetries == 6           \* Config "max_retries", handed to BackendSender
MaxEvents == 2            \* events handed to send_event where delivery is followed
MaxVideos == 2            \* video files one DetectionRunner processes
MaxPollFrame == 7         \* should_send_event is polled with frames 0 .. MaxPollFrame
MaxCoord == 3             \* the triangles tried have their corners in 0 .. MaxCoord
DoubleParkingThresholdSec == 3  \* double_parking_stationary_duration
MaxUntrackedFrame == 3    \* frames 0 .. MaxUntrackedFrame where frames without track ids occur
MaxCameraFrame == 4       \* frames 0 .. MaxCameraFrame of each video where two cameras take turns
MaxUnitCoord == 1         \* short polygons and stop lines have their points on 0..MaxUnitCoord squared
ImgW == 2                 \* width of the frame in pixels, for is_past_stop_line
ImgH == 2                 \* height of the frame in pixels, for is_past_stop_line
MaxDeliveryFrame == 3     \* frames 0 .. MaxDeliveryFrame where the delivery of each event is followed
FrameW == 100             \* width in pixels of the frames of the videos
FrameH == 100             \* height in pixels of the frames of the videos
MaxValidityFrame == 3     \* frames 0 .. MaxValidityFrame of each video where track ids 0 and 1 occur
MaxDriftFrame == 3        \* frames 0..MaxDriftFrame of a video, where only update is called

(* Program constants *)

ExitGateSec == 30         \* the literal 30.0 of check_parking_exit
ExitCooldownSec == 10     \* ParkingTracker(exit_cooldown_sec=10.0)
CooldownSec == 30         \* RedLightViolationTracker(cooldown_sec=30.0)
BackoffCapSec == 10       \* the cap of wait_time in BackendSender.send_event

TrackIds == {0, 1}                 \* track ids the detector hands out
Zones == {"P1", "P2"}              \* parking zones of the camera

None == <<>>

----------------------------------------------------------------------------
(* Helpers: dicts, quotients *)

DictSet(d, k, v) == [x \in (DOMAIN d) \cup {k} |-> IF x = k THEN v ELSE d[x]]

\* mutant of DictDel: the key is kept
DictDel_Keep(d, k) == d

\* d.pop(k, None)
DictDel(d, k) == [x \in (DOMAIN d) \ {k} |-> d[x]]

Quot(a, b) == <<a, b>>

\* mutant of QuotLess: the quotient is at most k
QuotLess_OrEqual(q, k) == q[1] <= k * q[2]

QuotLess(q, k) == q[1] < k * q[2]

uuid4(n) == <<"uuid", n>>

----------------------------------------------------------------------------
(* ParkingTracker *)

\* zone_keys is list(zone_tracked_ids.keys()): a dict keeps its keys in the
\* order of their insertion
ParkingTrackerInit ==
    [zone_tracked_ids |-> <<>>, seen_track_ids |-> <<>>, recent_exits |-> <<>>,
     zone_keys |-> <<>>]

\* recent_exits[zone] without the records at least exit_cooldown_sec old
PruneExits(exits, now_) ==
    SelectSeq(exits, LAMBDA e : now_ - e.exit_time < ExitCooldownSec)

\* mutant of EnsureZone: the zone's tables are created anew on every call
EnsureZone_Always(self, zone_name) ==
    [zone_tracked_ids |-> DictSet(self.zone_tracked_ids, zone_name, <<>>),
     recent_exits     |-> DictSet(self.recent_exits, zone_name, <<>>),
     seen_track_ids   |-> DictSet(self.seen_track_ids, zone_name, {}),
     zone_keys        |-> IF zone_name \in DOMAIN self.zone_tracked_ids
                          THEN self.zone_keys ELSE Append(self.zone_keys, zone_name)]

\* the zone's three tables, created on its first use
EnsureZone(self, zone_name) ==
    IF zone_name \notin DOMAIN self.zone_tracked_ids
    THEN [zone_tracked_ids |-> DictSet(self.zone_tracked_ids, zone_name, <<>>),
          recent_exits     |-> DictSet(self.recent_exits, zone_name, <<>>),
          seen_track_ids   |-> DictSet(self.seen_track_ids, zone_name, {}),
          zone_keys        |-> Append(self.zone_keys, zone_name)]
    ELSE self

\* variant: a track with a record in the zone's recent_exits counts as seen
AlreadySeen_OrExited(self, zone_name, track_id) ==
    \/ track_id \in self.seen_track_ids[zone_name]
    \/ \E i \in DOMAIN self.recent_exits[zone_name] :
           self.recent_exits[zone_name][i].track_id = track_id

\* mutant of AlreadySeen: the seen set is never consulted
AlreadySeen_Never(self, zone_name, track_id) == FALSE

\* the track already has an entry in this zone
AlreadySeen(self, zone_name, track_id) == track_id \in self.seen_track_ids[zone_name]

\* track_id is None; a detection without a track has no field track_id
TrackIsNone(detection) == "track_id" \notin DOMAIN detection

\* the exception a call ended with, "none" if it returned
Raised(call) == IF "raised" \in DOMAIN call THEN call.raised ELSE "none"

\* check_parking_entry: the tracker afterwards and the pair returned; the
\* comparison None < 0 raises TypeError
check_parking_entry(self, zone_name, detection, stationary_seconds, parking_threshold_sec, now_, event_id) ==
    IF stationary_seconds = None \/ QuotLess(stationary_seconds, parking_threshold_sec)
    THEN [self |-> self, ret |-> <<FALSE, None>>]
    ELSE
    IF TrackIsNone(detection)
    THEN [self |-> self, ret |-> <<FALSE, None>>, raised |-> "TypeError"]
    ELSE
    LET track_id == detection.track_id IN
    IF track_id < 0
    THEN [self |-> self, ret |-> <<FALSE, None>>]
    ELSE
    LET s1 == EnsureZone(self, zone_name) IN
    IF AlreadySeen(s1, zone_name, track_id)
    THEN [self |-> s1, ret |-> <<FALSE, None>>]
    ELSE
    [self |->
        [zone_tracked_ids |->
            DictSet(s1.zone_tracked_ids, zone_name,
                DictSet(s1.zone_tracked_ids[zone_name], track_id,
                    [entry_time |-> now_, event_id |-> event_id, missing_frames |-> 0])),
         recent_exits |->
            DictSet(s1.recent_exits, zone_name, PruneExits(s1.recent_exits[zone_name], now_)),
         seen_track_ids |->
            DictSet(s1.seen_track_ids, zone_name, s1.seen_track_ids[zone_name] \cup {track_id}),
         zone_keys |-> s1.zone_keys],
     ret |-> <<TRUE, event_id>>]

\* {det.get("track_id") for det in vehicles_in_zone if det.get("track_id", -1) >= 0}
CurrentTrackIds(vehicles_in_zone) ==
    {vehicles_in_zone[i].track_id : i \in {j \in DOMAIN vehicles_in_zone :
                                                vehicles_in_zone[j].track_id >= 0}}

\* mutant of MissingFrames: a track that is back does not reset the counter
MissingFrames_NoReset(vehicle_data, track_id, current_track_ids) ==
    IF track_id \notin current_track_ids
    THEN vehicle_data.missing_frames + 1
    ELSE vehicle_data.missing_frames

\* the counter of a session after one more frame
MissingFrames(vehicle_data, track_id, current_track_ids) ==
    IF track_id \notin current_track_ids
    THEN vehicle_data.missing_frames + 1
    ELSE 0

\* mutant of SeenAfterExit: the track stays recorded as seen
SeenAfterExit_Keep(seen, track_id) == seen

\* self.seen_track_ids[zone_name].discard(track_id)
SeenAfterExit(seen, track_id) == seen \ {track_id}

\* mutant of ExitConfirmed: no debouncing, as with exit_debounce_frames = 0
ExitConfirmed_AtOnce(missing_frames, exit_debounce_frames) == missing_frames >= 0

\* the exit of a session is confirmed
ExitConfirmed(missing_frames, exit_debounce_frames) ==
    missing_frames >= exit_debounce_frames

\* mutant of ExitReported: every confirmed exit is reported
ExitReported_Always(duration) == TRUE

\* a confirmed exit is reported to the caller
ExitReported(duration) == duration >= ExitGateSec

\* the keys of zone_tracked_ids[zone] in the order the dict holds them: the order
\* in which the sessions were created
RECURSIVE KeysInOrder(_, _)
KeysInOrder(tracked, keys) ==
    IF keys = {} THEN <<>>
    ELSE LET first == CHOOSE t \in keys :
                        \A u \in keys : tracked[t].event_id[2] <= tracked[u].event_id[2]
         IN <<first>> \o KeysInOrder(tracked, keys \ {first})

\* the loop of check_parking_exit over the sessions of one zone; st is
\* [tracked, seen, exits, exited], the zone's tables and the list returned
RECURSIVE ExitLoop(_, _, _, _)
ExitLoop(keys, st, current_track_ids, now_) ==
    IF keys = <<>> THEN st
    ELSE
    LET track_id == Head(keys)
        missing == MissingFrames(st.tracked[track_id], track_id, current_track_ids)
        vehicle_data == [st.tracked[track_id] EXCEPT !.missing_frames = missing]
        duration == now_ - vehicle_data.entry_time
        next ==
            IF ExitConfirmed(missing, ExitDebounceFrames)
            THEN [tracked |-> DictDel(st.tracked, track_id),
                  seen    |-> SeenAfterExit(st.seen, track_id),
                  exits   |-> Append(st.exits, [exit_time |-> now_,
                                                event_id  |-> vehicle_data.event_id,
                                                track_id  |-> track_id]),
                  exited  |-> IF ExitReported(duration)
                              THEN Append(st.exited,
                                          <<vehicle_data.event_id, duration, track_id>>)
                              ELSE st.exited]
            ELSE [st EXCEPT !.tracked = DictSet(st.tracked, track_id, vehicle_data)]
    IN ExitLoop(Tail(keys), next, current_track_ids, now_)

\* check_parking_exit: the tracker afterwards and the list returned; in the
\* set comprehension of current_track_ids the comparison None >= 0 raises
\* TypeError
check_parking_exit(self, zone_name, vehicles_in_zone, current_frame, now_) ==
    IF zone_name \notin DOMAIN self.zone_tracked_ids
    THEN [self |-> self, ret |-> <<>>]
    ELSE
    IF \E i \in DOMAIN vehicles_in_zone : TrackIsNone(vehicles_in_zone[i])
    THEN [self |-> self, ret |-> <<>>, raised |-> "TypeError"]
    ELSE
    LET tracked == self.zone_tracked_ids[zone_name]
        st == ExitLoop(KeysInOrder(tracked, DOMAIN tracked),
                       [tracked |-> tracked,
                        seen    |-> self.seen_track_ids[zone_name],
                        exits   |-> self.recent_exits[zone_name],
                        exited  |-> <<>>],
                       CurrentTrackIds(vehicles_in_zone), now_)
    IN [self |-> [zone_tracked_ids |-> DictSet(self.zone_tracked_ids, zone_name, st.tracked),
                  seen_track_ids   |-> DictSet(self.seen_track_ids, zone_name, st.seen),
                  recent_exits     |-> DictSet(self.recent_exits, zone_name, st.exits),
                  zone_keys        |-> self.zone_keys],
        ret |-> st.exited]

----------------------------------------------------------------------------
(* StationaryTracker *)

StationaryTrackerInit == [track_state |-> <<>>]

\* mutant of Moved: a displacement of exactly epsilon counts as a move
Moved_AtEpsilon(cx, cy, state, epsilon_px) ==
    (cx - state.last_x) * (cx - state.last_x) + (cy - state.last_y) * (cy - state.last_y)
        >= epsilon_px * epsilon_px

\* mutant of Moved: no displacement counts as a move
Moved_Never(cx, cy, state, epsilon_px) == FALSE

\* ((cx - last_x) ** 2 + (cy - last_y) ** 2) ** 0.5 > epsilon_px
Moved(cx, cy, state, epsilon_px) ==
    (cx - state.last_x) * (cx - state.last_x) + (cy - state.last_y) * (cy - state.last_y)
        > epsilon_px * epsilon_px

\* update: the tracker afterwards and the augmented detection returned
update(self, detection, frame_idx) ==
    LET track_id == detection.track_id
        cx == detection.cx
        cy == detection.cy
        fresh == [last_x |-> cx, last_y |-> cy, stationary_start_frame |-> frame_idx]
        reset == [self |-> [track_state |-> DictSet(self.track_state, track_id, fresh)],
                  ret  |-> [is_stationary |-> FALSE,
                            stationary_duration_sec |-> Quot(0, 1),
                            stationary_start_frame |-> frame_idx] @@ detection]
    IN
    IF TrackIsNone(detection)
    THEN [self |-> self,
          ret  |-> [is_stationary |-> FALSE,
                    stationary_duration_sec |-> Quot(0, 1)] @@ detection]
    ELSE
    IF track_id \notin DOMAIN self.track_state
    THEN reset
    ELSE
    LET state == self.track_state[track_id] IN
    IF Moved(cx, cy, state, EpsilonPx)
    THEN reset
    ELSE [self |-> self,
          ret  |-> [is_stationary |-> TRUE,
                    stationary_duration_sec |->
                        Quot(frame_idx - state.stationary_start_frame, FPS),
                    stationary_start_frame |-> state.stationary_start_frame] @@ detection]

\* the runner's list comprehension: update applied to the detections in turn
RECURSIVE UpdateAll(_, _, _)
UpdateAll(self, detections, frame_idx) ==
    IF detections = <<>>
    THEN [self |-> self, ret |-> <<>>]
    ELSE LET first == update(self, Head(detections), frame_idx)
             rest == UpdateAll(first.self, Tail(detections), frame_idx)
         IN [self |-> rest.self, ret |-> <<first.ret>> \o rest.ret]

----------------------------------------------------------------------------
(* TrafficMonitoringTracker *)

\* as DetectionRunner constructs it: int(traffic_interval_seconds * fps)
TrafficMonitoringTrackerInit ==
    [interval_frames |-> TrafficMonitoringInterval * FPS, last_event_frame |-> <<>>]

\* set_interval_seconds: interval_frames = int(seconds * fps)
set_interval_seconds(self, seconds, fps) ==
    [self EXCEPT !.interval_frames = seconds * fps]

\* variant: the interval is over one frame late
Elapsed_OneLate(frames_since_last, interval_frames) == frames_since_last > interval_frames

\* should_send = frames_since_last >= self.interval_frames
Elapsed(frames_since_last, interval_frames) == frames_since_last >= interval_frames

\* variant: a poll answered True is not remembered
Remember_Never(last_event_frame, camera_id, current_frame_number) == last_event_frame

\* self.last_event_frame[camera_id] = current_frame_number
Remember(last_event_frame, camera_id, current_frame_number) == DictSet(last_event_frame, camera_id, current_frame_number)

\* should_send_event: the tracker afterwards and the answer
should_send_event(self, camera_id, current_frame_number) ==
    LET last_event_frame == IF camera_id \notin DOMAIN self.last_event_frame
                            THEN DictSet(self.last_event_frame, camera_id, 0)
                            ELSE self.last_event_frame
        frames_since_last == current_frame_number - last_event_frame[camera_id]
        should_send == Elapsed(frames_since_last, self.interval_frames)
    IN [self |-> [self EXCEPT !.last_event_frame =
                        IF should_send
                        THEN Remember(last_event_frame, camera_id, current_frame_number)
                        ELSE last_event_frame],
        ret |-> should_send]

----------------------------------------------------------------------------
(* RedLightViolationTracker *)

RedLightViolationTrackerInit == [violations |-> <<>>, crossed_vehicles |-> <<>>]

\* Python's round(a / b) for b > 0: to the nearest integer, a tie to the even one
PyRound(a, b) ==
    LET q == a \div b
        r == a % b
    IN IF 2 * r < b THEN q
       ELSE IF 2 * r > b THEN q + 1
       ELSE IF q % 2 = 0 THEN q ELSE q + 1

get_position_key(detection) ==
    <<PyRound(detection.cx, 50) * 50, PyRound(detection.cy, 50) * 50>>

\* mutant of PruneViolations: every record is dropped, whatever its age
PruneViolations_All(violations, now_, cooldown_sec) == <<>>

\* mutant of PruneViolations: no record is ever dropped
PruneViolations_Keep(violations, now_, cooldown_sec) == violations

\* the violation records still inside the cooldown window
PruneViolations(violations, now_, cooldown_sec) ==
    [tid \in {t \in DOMAIN violations :
                now_ - violations[t].violation_time < cooldown_sec} |-> violations[tid]]

\* f"{track_id}_{int(now.timestamp() * 1000)}"
ViolationId(track_id, now_) == <<track_id, now_ * 1000>>

\* mutant of NotRed: the branch of a light that is not red is never taken
NotRed_Never(light_is_red) == FALSE

\* if not light_is_red
NotRed(light_is_red) == ~light_is_red

\* check_violation: the tracker afterwards and the pair returned
check_violation(self, detection, light_is_red, vehicle_crossed_stop_line, now_) ==
    LET track_id == detection.track_id IN
    IF track_id < 0
    THEN [self |-> self, ret |-> <<FALSE, None>>]
    ELSE
    LET pos_key == get_position_key(detection)
        violations == PruneViolations(self.violations, now_, CooldownSec)
        crossed == DictSet(self.crossed_vehicles, track_id, pos_key)
        uncrossed == DictDel(self.crossed_vehicles, track_id)
    IN
    IF NotRed(light_is_red)
    THEN [self |-> [violations |-> violations,
                    crossed_vehicles |-> IF vehicle_crossed_stop_line
                                         THEN crossed ELSE uncrossed],
          ret |-> <<FALSE, None>>]
    ELSE IF vehicle_crossed_stop_line
    THEN IF track_id \notin DOMAIN violations
         THEN LET violation_id == ViolationId(track_id, now_) IN
              [self |-> [violations |->
                            DictSet(violations, track_id,
                                    [violation_time |-> now_,
                                     position_key |-> pos_key,
                                     violation_id |-> violation_id]),
                         crossed_vehicles |-> crossed],
               ret |-> <<TRUE, violation_id>>]
         ELSE [self |-> [violations |-> violations, crossed_vehicles |-> crossed],
               ret |-> <<FALSE, None>>]
    ELSE [self |-> [violations |-> violations, crossed_vehicles |-> uncrossed],
          ret |-> <<FALSE, None>>]

----------------------------------------------------------------------------
(* BackendSender.send_event *)

\* no call of send_event is running
BackendSenderIdle == [pc |-> "idle", attempt |-> 0]

\* what requests.post does: a response with a status code, or an exception
Response(status_code, raised) == [status_code |-> status_code, raised |-> raised]

Responses ==
    {Response(200, "none"), Response(201, "none"), Response(500, "none"),
     Response(0, "ConnectionError"), Response(0, "RequestException")}

\* mutant of Success: only 200 counts
Success_Only200(response) == response.raised = "none" /\ response.status_code = 200

\* response.status_code in (200, 201), no exception raised
Success(response) == response.raised = "none" /\ response.status_code \in {200, 201}

\* mutant of InRange: the loop stops one pass early
InRange_OneLess(attempt, retries) == 1 <= attempt /\ attempt <= retries - 1

\* mutant of InRange: the loop runs once more
InRange_OneMore(attempt, retries) == 1 <= attempt /\ attempt <= retries + 1

\* attempt in range(1, self.max_retries + 1)
InRange(attempt, retries) == 1 <= attempt /\ attempt <= retries

\* if attempt < self.max_retries
Backoff(attempt, retries) == attempt < retries

\* mutant of wait_time: no cap
wait_time_NoCap(attempt) == 2 ^ (attempt - 1)

\* min(2 ** (attempt - 1), 10)
wait_time(attempt) ==
    IF 2 ^ (attempt - 1) < BackoffCapSec THEN 2 ^ (attempt - 1) ELSE BackoffCapSec

\* mutant of Counted: the counter is left as it is
Counted_Never(count, hit) == count

\* self.events_sent += 1, self.events_dropped += 1
Counted(count, hit) == IF hit THEN count + 1 ELSE count

----------------------------------------------------------------------------
(* Initial state: the trackers as their constructors leave them *)

\* the state after DetectionRunner.__init__ with this "max_retries" in the Config
InitWith(config_max_retries) ==
    /\ parking_tracker = ParkingTrackerInit
    /\ stationary_tracker = StationaryTrackerInit
    /\ red_light_violation_tracker = RedLightViolationTrackerInit
    /\ now = 0
    /\ uuids = 0
    /\ frame_count = 0
    /\ video_fps_configured = FALSE
    /\ traffic_monitoring_tracker = TrafficMonitoringTrackerInit
    /\ events = <<>>
    /\ ret = [op |-> "none"]
    /\ sessions_log = <<>>
    /\ violations_log = <<>>
    /\ backend_sender = BackendSenderIdle
    /\ events_sent = 0
    /\ events_dropped = 0
    /\ send_log = <<>>
    /\ video = 0
    /\ track_log = <<>>
    /\ emit_log = <<>>
    /\ double_parking_violations = <<>>
    /\ video_raised = "none"
    /\ max_retries = config_max_retries

Init == InitWith(MaxRetries)

\* a detection as the detector yields it
Detection(track_id, cx, cy) == [track_id |-> track_id, cx |-> cx, cy |-> cy]

\* a detection of a frame whose boxes have no ids: track_id is None
Untracked(cx, cy) == [cx |-> cx, cy |-> cy]

\* the detections of a set of track ids, in ascending order of track id
RECURSIVE DetectionsOf(_)
DetectionsOf(ids) ==
    IF ids = {} THEN <<>>
    ELSE LET t == CHOOSE x \in ids : \A y \in ids : x <= y
         IN <<Detection(t, 0, 0)>> \o DetectionsOf(ids \ {t})

\* the sessions of a zone, none for a zone the tracker does not know
SessionsOf(self, zone_name) ==
    IF zone_name \in DOMAIN self.zone_tracked_ids
    THEN self.zone_tracked_ids[zone_name]
    ELSE <<>>

\* the event ids of the open sessions of a zone
OpenEventIds(self, zone_name) ==
    {SessionsOf(self, zone_name)[t].event_id : t \in DOMAIN SessionsOf(self, zone_name)}

\* the number of records of an exit list that carry event_id
RECURSIVE CountExits(_, _)
CountExits(exited, event_id) ==
    IF exited = <<>> THEN 0
    ELSE (IF Head(exited)[1] = event_id THEN 1 ELSE 0) + CountExits(Tail(exited), event_id)

\* sessions_log after a call of check_parking_entry
LogEntry(log, zone_name, track_id, result) ==
    IF result[1]
    THEN Append(log, [zone_name |-> zone_name, track_id |-> track_id,
                      event_id |-> result[2], closed |-> FALSE, exits |-> 0])
    ELSE log

\* sessions_log after a call of check_parking_exit on zone_name: the sessions it
\* closed and the exit records it returned
LogExit(log, zone_name, before, after, exited) ==
    [n \in DOMAIN log |->
        [log[n] EXCEPT
            !.closed = @ \/ (/\ log[n].zone_name = zone_name
                             /\ log[n].event_id \in OpenEventIds(before, zone_name)
                             /\ log[n].event_id \notin OpenEventIds(after, zone_name)),
            !.exits = @ + CountExits(exited, log[n].event_id)]]

\* the tracks of a zone whose session stays open with its counter reset from
\* a positive value to 0
Reappeared(before, after, zone_name) ==
    {t \in DOMAIN SessionsOf(before, zone_name) :
        /\ SessionsOf(before, zone_name)[t].missing_frames > 0
        /\ t \in DOMAIN SessionsOf(after, zone_name)
        /\ SessionsOf(after, zone_name)[t].missing_frames = 0}

----------------------------------------------------------------------------
(* The ParkingTracker under every sequence of calls *)

BelowThreshold == Quot(ParkingThresholdSec * FPS - 1, FPS)
AtThreshold == Quot(ParkingThresholdSec * FPS, FPS)

\* the calls of check_parking_entry: <<zone_name, track_id, stationary_seconds>>
EntryInputs ==
    {<<"P1", 0, AtThreshold>>, <<"P1", 1, AtThreshold>>, <<"P2", 0, AtThreshold>>,
     <<"P1", 0, BelowThreshold>>, <<"P1", 0, None>>, <<"P1", -1, AtThreshold>>}

\* the calls of check_parking_exit: the track ids of the detections in the zone
PresentInputs == {{}, {0}, {1}, {-1, 0, 1}}

CheckParkingEntry ==
    \E in \in EntryInputs :
        LET zone_name == in[1]
            track_id == in[2]
            stationary_seconds == in[3]
            call == check_parking_entry(parking_tracker, zone_name,
                                        Detection(track_id, 0, 0), stationary_seconds,
                                        ParkingThresholdSec, now, uuid4(uuids + 1))
        IN /\ call.ret[1] => uuids < MaxUuids
           /\ parking_tracker' = call.self
           /\ uuids' = IF call.ret[1] THEN uuids + 1 ELSE uuids
           /\ ret' = [op |-> "check_parking_entry", zone_name |-> zone_name,
                      track_id |-> track_id, stationary_seconds |-> stationary_seconds,
                      result |-> call.ret]
           /\ sessions_log' = LogEntry(sessions_log, zone_name, track_id, call.ret)
           /\ UNCHANGED <<stationary_tracker, red_light_violation_tracker,
                          now, frame_count, video_fps_configured,
                   traffic_monitoring_tracker, events, violations_log, sender_vars, video, track_log, aux_vars>>

CheckParkingExit ==
    \E zone_name \in Zones, present \in PresentInputs :
        LET call == check_parking_exit(parking_tracker, zone_name,
                                       DetectionsOf(present), frame_count, now)
        IN /\ parking_tracker' = call.self
           /\ ret' = [op |-> "check_parking_exit", zone_name |-> zone_name,
                      present |-> present \cap DOMAIN SessionsOf(parking_tracker, zone_name),
                      reappeared |-> Reappeared(parking_tracker, call.self, zone_name),
                      result |-> call.ret]
           /\ sessions_log' = LogExit(sessions_log, zone_name, parking_tracker,
                                      call.self, call.ret)
           /\ UNCHANGED <<stationary_tracker, red_light_violation_tracker,
                          now, uuids, frame_count, video_fps_configured,
                   traffic_monitoring_tracker, events, violations_log, sender_vars, video, track_log, aux_vars>>

\* time passes between two calls
Tick ==
    /\ now + ClockStep <= MaxNow
    /\ now' = now + ClockStep
    /\ ret' = [op |-> "tick"]
    /\ UNCHANGED <<parking_tracker, stationary_tracker, red_light_violation_tracker,
                   uuids, frame_count, video_fps_configured,
                   traffic_monitoring_tracker, events, sessions_log, violations_log, sender_vars, video, track_log, aux_vars>>

Next == CheckParkingEntry \/ CheckParkingExit \/ Tick

Spec == Init /\ [][Next]_vars

----------------------------------------------------------------------------
(* The RedLightViolationTracker under every sequence of calls *)

\* pixel positions of a detection's centre
Positions == {<<0, 0>>, <<25, 75>>}

\* violations_log after a call of check_violation
LogViolation(log, track_id, result, now_) ==
    IF result[1]
    THEN Append(log, [track_id |-> track_id, violation_id |-> result[2], time |-> now_])
    ELSE log

CheckViolation ==
    \E track_id \in TrackIds \cup {-1}, pos \in Positions,
       light_is_red \in BOOLEAN, vehicle_crossed_stop_line \in BOOLEAN :
        LET call == check_violation(red_light_violation_tracker,
                                    Detection(track_id, pos[1], pos[2]),
                                    light_is_red, vehicle_crossed_stop_line, now)
        IN /\ red_light_violation_tracker' = call.self
           /\ ret' = [op |-> "check_violation", track_id |-> track_id,
                      light_is_red |-> light_is_red,
                      vehicle_crossed_stop_line |-> vehicle_crossed_stop_line,
                      result |-> call.ret]
           /\ violations_log' = LogViolation(violations_log, track_id, call.ret, now)
           /\ UNCHANGED <<parking_tracker, stationary_tracker, now, uuids,
                          frame_count, video_fps_configured,
                   traffic_monitoring_tracker, events, sessions_log, sender_vars, video, track_log, aux_vars>>

\* time passes between two calls
RedLightTick ==
    /\ now + ClockStep <= RedLightMaxNow
    /\ now' = now + ClockStep
    /\ ret' = [op |-> "tick"]
    /\ UNCHANGED <<parking_tracker, stationary_tracker, red_light_violation_tracker,
                   uuids, frame_count, video_fps_configured,
                   traffic_monitoring_tracker, events, sessions_log, violations_log, sender_vars, video, track_log, aux_vars>>

RedLightNext == CheckViolation \/ RedLightTick

RedLightSpec == Init /\ [][RedLightNext]_vars

----------------------------------------------------------------------------
(* ZoneDetector.point_in_polygon.  Coordinates are whole numbers of a grid  *)
(* unit; a point with fractional coordinates a/k is tried as the point a    *)
(* against the polygon enlarged k times.                                    *)

\* variant: an edge that ends at the height of the point straddles it
Straddles_Inclusive(y, y1, y2) == (y1 >= y) # (y2 > y)

\* (y1 > y) != (y2 > y)
Straddles(y, y1, y2) == (y1 > y) # (y2 > y)

\* x < (x2 - x1) * (y - y1) / (y2 - y1 + 1e-9) + x1, for y1 # y2.  The term
\* 1e-9 is smaller than any difference between two quantities of the grid, so
\* it decides the comparison only when x - x1 = (x2 - x1) * (y - y1) / (y2 - y1):
\* then the right side is nearer to x1 than x is.
LeftOfEdge(x, y, x1, y1, x2, y2) ==
    LET l == (x - x1) * (y2 - y1)
        a == (x2 - x1) * (y - y1)
    IN IF y2 - y1 > 0
       THEN l < a \/ (l = a /\ x - x1 < 0)
       ELSE l > a \/ (l = a /\ x - x1 > 0)

\* the loop of point_in_polygon from edge i on
RECURSIVE RayCast(_, _, _, _)
RayCast(point, polygon, i, inside) ==
    IF i > Len(polygon) THEN inside
    ELSE LET x == point[1]
             y == point[2]
             x1 == polygon[i][1]
             y1 == polygon[i][2]
             x2 == polygon[(i % Len(polygon)) + 1][1]
             y2 == polygon[(i % Len(polygon)) + 1][2]
         IN RayCast(point, polygon, i + 1,
                    IF Straddles(y, y1, y2) /\ LeftOfEdge(x, y, x1, y1, x2, y2)
                    THEN ~inside ELSE inside)

point_in_polygon(point, polygon) == RayCast(point, polygon, 1, FALSE)

----------------------------------------------------------------------------
(* DetectionRunner.process_video, frame by frame.  main hands the files of  *)
(* video_files to one DetectionRunner in turn.  Only cam2 has a stop_line   *)
(* zone, so the frame loop calls check_violation on its videos alone.  The  *)
(* state of the traffic light is read off the frame and may be either.  The *)
(* clock does not advance within a frame.                                   *)

\* the video files, each as the parts of its stem between underscores
video_files ==
    [v \in 0..(MaxVideos - 1) |-> <<IF v % 2 = 0 THEN "cam1" ELSE "cam2", "stream">>]

\* base_name.split("_")[0] if "_" in base_name, else None
get_camera_id_from_filename(stem) == IF Len(stem) > 1 THEN stem[1] ELSE None

\* process_video: the camera of the video being processed
camera_id == get_camera_id_from_filename(video_files[video])

Rectangle(x1, y1, x2, y2) == << <<x1, y1>>, <<x2, y1>>, <<x2, y2>>, <<x1, y2>> >>

\* zones/zones.json: per camera its zones.  Both cameras have a parking zone
\* named P1 and a double-parking zone named D1; the double-parking zones of
\* cam2 overlap.  The stop line of cam2 is the diagonal from the top right
\* to the bottom left corner of the frame, in normalized coordinates; the
\* rectangles are in pixels.
zones_config ==
    [cam1 |-> << [name |-> "P1", type |-> "parking", coordinates |-> Rectangle(0, 0, 10, 10)],
                 [name |-> "P2", type |-> "parking", coordinates |-> Rectangle(15, 0, 30, 10)],
                 [name |-> "D1", type |-> "double_parking",
                  coordinates |-> Rectangle(40, 0, 50, 10)] >>,
     cam2 |-> << [name |-> "P1", type |-> "parking", coordinates |-> Rectangle(0, 0, 10, 10)],
                 [name |-> "T1", type |-> "traffic", coordinates |-> Rectangle(0, 0, 30, 10)],
                 [name |-> "T2", type |-> "traffic", coordinates |-> Rectangle(0, 20, 30, 30)],
                 [name |-> "D1", type |-> "double_parking",
                  coordinates |-> Rectangle(40, 0, 50, 10)],
                 [name |-> "D2", type |-> "double_parking",
                  coordinates |-> Rectangle(45, 0, 60, 10)],
                 [name |-> "stop_line", type |-> "stop_line",
                  coordinates |-> << <<1, 0>>, <<0, 1>> >>] >>]

\* ZoneDetector.polygons: per camera the items of its dict, in insertion order
polygons ==
    [camera \in DOMAIN zones_config |->
        [i \in DOMAIN zones_config[camera] |->
            [polygon |-> zones_config[camera][i].coordinates,
             name |-> zones_config[camera][i].name,
             type |-> zones_config[camera][i].type]]]

\* the zones whose polygon holds the centre of the detection, in insertion
\* order; cx_norm and cy_norm are the centre in the units of the polygons
get_vehicle_zones(camera, detection) ==
    IF camera \notin DOMAIN polygons THEN <<>>
    ELSE SelectSeq(polygons[camera], LAMBDA zone_info :
            point_in_polygon(<<detection.cx, detection.cy>>, zone_info.polygon))

\* zones_to_detections after one more detection of zone_name; the dict is the
\* sequence of its items in insertion order
ZoneAppend(zones_to_detections, zone_name, detection) ==
    IF \E i \in DOMAIN zones_to_detections : zones_to_detections[i].zone_name = zone_name
    THEN [i \in DOMAIN zones_to_detections |->
            IF zones_to_detections[i].zone_name = zone_name
            THEN [zones_to_detections[i] EXCEPT !.detections = Append(@, detection)]
            ELSE zones_to_detections[i]]
    ELSE Append(zones_to_detections,
                [zone_name |-> zone_name, detections |-> <<detection>>])

\* zone["type"] == zone_type
TypeMatches(zone, zone_type) == zone.type = zone_type

\* the inner loop of get_detections_in_any_zone_of_type over the zones hit
RECURSIVE ZonesLoop(_, _, _, _)
ZonesLoop(zones_to_detections, zones, detection, zone_type) ==
    IF zones = <<>> THEN zones_to_detections
    ELSE ZonesLoop(IF TypeMatches(Head(zones), zone_type)
                   THEN ZoneAppend(zones_to_detections, Head(zones).name, detection)
                   ELSE zones_to_detections,
                   Tail(zones), detection, zone_type)

RECURSIVE DetectionsLoop(_, _, _, _)
DetectionsLoop(zones_to_detections, camera, detections, zone_type) ==
    IF detections = <<>> THEN zones_to_detections
    ELSE DetectionsLoop(ZonesLoop(zones_to_detections,
                                  get_vehicle_zones(camera, Head(detections)),
                                  Head(detections), zone_type),
                        camera, Tail(detections), zone_type)

get_detections_in_any_zone_of_type(camera, detections, zone_type) ==
    DetectionsLoop(<<>>, camera, detections, zone_type)

\* parking_dets_by_zone.get(zone_name, [])
ZoneGet(zones_to_detections, zone_name) ==
    IF \E i \in DOMAIN zones_to_detections : zones_to_detections[i].zone_name = zone_name
    THEN zones_to_detections[CHOOSE i \in DOMAIN zones_to_detections :
                                zones_to_detections[i].zone_name = zone_name].detections
    ELSE <<>>

\* det.get('stationary_duration_sec') or 0
StationaryTime(det) ==
    IF det.stationary_duration_sec[1] = 0 THEN Quot(0, 1) ELSE det.stationary_duration_sec

\* yolo_processor: frame_skip = max(1, int(fps / 10))
frame_skip(fps) == IF fps \div 10 >= 1 THEN fps \div 10 ELSE 1

EntryEvent(camera, zone_name, det, event_id, stationary_time, frame_number) ==
    [event_type |-> "parking_status", camera_id |-> camera, zone_name |-> zone_name,
     event_id |-> event_id,
     track_ids |-> IF det.track_id >= 0 THEN <<det.track_id>> ELSE <<>>,
     stationary_seconds |-> stationary_time, frame_number |-> frame_number,
     parking_event_type |-> "entry"]

ExitEvent(camera, zone_name, exited, frame_number) ==
    [event_type |-> "parking_status", camera_id |-> camera, zone_name |-> zone_name,
     event_id |-> exited[1],
     parking_duration_seconds |-> exited[2], track_id |-> exited[3],
     frame_number |-> frame_number, parking_event_type |-> "exit"]

\* "Parking entries", the loop over the detections of one zone;
\* st = [parking_tracker, uuids, events, raised]
RECURSIVE EntriesOfZone(_, _, _, _, _, _)
EntriesOfZone(st, camera, zone_name, vehicles_in_zone, frame_number, now_) ==
    IF vehicles_in_zone = <<>> \/ st.raised # "none" THEN st
    ELSE LET det == Head(vehicles_in_zone)
             stationary_time == StationaryTime(det)
             call == check_parking_entry(st.parking_tracker, zone_name, det,
                                         stationary_time, ParkingThresholdSec, now_,
                                         uuid4(st.uuids + 1))
         IN EntriesOfZone(
                [parking_tracker |-> call.self,
                 uuids |-> IF call.ret[1] THEN st.uuids + 1 ELSE st.uuids,
                 events |-> IF call.ret[1]
                            THEN Append(st.events,
                                        EntryEvent(camera, zone_name, det, call.ret[2],
                                                   stationary_time, frame_number))
                            ELSE st.events,
                 raised |-> Raised(call)],
                camera, zone_name, Tail(vehicles_in_zone), frame_number, now_)

\* "Parking entries", the loop over the items of parking_dets_by_zone
RECURSIVE ParkingEntries(_, _, _, _, _)
ParkingEntries(st, camera, parking_dets_by_zone, frame_number, now_) ==
    IF parking_dets_by_zone = <<>> THEN st
    ELSE ParkingEntries(EntriesOfZone(st, camera, Head(parking_dets_by_zone).zone_name,
                                      Head(parking_dets_by_zone).detections,
                                      frame_number, now_),
                        camera, Tail(parking_dets_by_zone), frame_number, now_)

\* the events of the exit records of one call, in order
RECURSIVE ExitEvents(_, _, _, _)
ExitEvents(camera, zone_name, exited_vehicles, frame_number) ==
    IF exited_vehicles = <<>> THEN <<>>
    ELSE <<ExitEvent(camera, zone_name, Head(exited_vehicles), frame_number)>>
            \o ExitEvents(camera, zone_name, Tail(exited_vehicles), frame_number)

\* variant: only the zones with a detection on this frame are checked
ZonesToCheck_Detected(self, parking_dets_by_zone) ==
    SelectSeq(self.zone_keys, LAMBDA zone_name :
        \E i \in DOMAIN parking_dets_by_zone : parking_dets_by_zone[i].zone_name = zone_name)

\* list(self.parking_tracker.zone_tracked_ids.keys())
ZonesToCheck(self, parking_dets_by_zone) == self.zone_keys

\* "Parking exits", the loop over the zones the tracker knows, whichever
\* camera they were entered on
RECURSIVE ParkingExits(_, _, _, _, _, _)
ParkingExits(st, camera, zones, parking_dets_by_zone, frame_number, now_) ==
    IF zones = <<>> \/ st.raised # "none" THEN st
    ELSE LET zone_name == Head(zones)
             call == check_parking_exit(st.parking_tracker, zone_name,
                                        ZoneGet(parking_dets_by_zone, zone_name),
                                        frame_number, now_)
         IN ParkingExits(
                [st EXCEPT !.parking_tracker = call.self,
                           !.events = @ \o ExitEvents(camera, zone_name, call.ret,
                                                      frame_number),
                           !.raised = Raised(call)],
                camera, Tail(zones), parking_dets_by_zone, frame_number, now_)

\* variant: a traffic zone without a vehicle gets no event
ZoneReported_NonEmpty(zone, vehicles_in_zone) ==
    zone.type = "traffic" /\ vehicles_in_zone # <<>>

\* traffic_zones = [z["name"] for z in camera_zones if z.get("type") == "traffic"]
ZoneReported(zone, vehicles_in_zone) == zone.type = "traffic"

\* "Traffic monitoring": one event per traffic zone of the camera
RECURSIVE TrafficEvents(_, _, _, _)
TrafficEvents(camera, zones, traffic_dets_by_zone, frame_number) ==
    IF zones = <<>> THEN <<>>
    ELSE (IF ZoneReported(Head(zones), ZoneGet(traffic_dets_by_zone, Head(zones).name))
          THEN << [event_type |-> "traffic_monitoring", camera_id |-> camera,
                   zone_name |-> Head(zones).name,
                   vehicle_count |-> Len(ZoneGet(traffic_dets_by_zone, Head(zones).name)),
                   frame_number |-> frame_number] >>
          ELSE <<>>)
         \o TrafficEvents(camera, Tail(zones), traffic_dets_by_zone, frame_number)

\* self.zone_detector.zones_config.get(camera_id, {}).get("zones", [])
camera_zones(camera) == IF camera \in DOMAIN zones_config THEN zones_config[camera] ELSE <<>>

\* ZoneDetector.get_zone_by_name: the first zone of the camera with that name
get_zone_by_name(camera, zone_name) ==
    LET named == SelectSeq(camera_zones(camera), LAMBDA zone : zone.name = zone_name)
    IN IF named = <<>> THEN None ELSE Head(named)

\* a pixel coordinate as is_past_stop_line normalizes it and
\* is_point_before_line scales it back: a value of at most 1 is taken as
\* normalized already
Rescaled(c, img) == IF c > 1 THEN c ELSE c * img

is_point_before_line(point_px, line_coords, img_h, img_w) ==
    IF Len(line_coords) < 2 THEN TRUE
    ELSE LET px == point_px[1]
             py == point_px[2]
             x1 == line_coords[1][1] * img_w
             y1 == line_coords[1][2] * img_h
             x2 == line_coords[2][1] * img_w
             y2 == line_coords[2][2] * img_h
             cross_product == (px - x1) * (y2 - y1) - (py - y1) * (x2 - x1)
         IN cross_product < 0

is_past_stop_line(detection, stop_line_coords, img_h, img_w) ==
    ~is_point_before_line(<<Rescaled(detection.cx, img_w), Rescaled(detection.cy, img_h)>>,
                          stop_line_coords, img_h, img_w)

\* det.get('track_id') or -1
TrackIdOr(det) == IF TrackIsNone(det) THEN 0 - 1 ELSE IF det.track_id = 0 THEN 0 - 1 ELSE det.track_id

\* variant: the dict of the tracks that double-parked is never consulted
Triggered_Never(violations, track_id) == FALSE

\* track_id in double_parking_violations
Triggered(violations, track_id) == track_id \in DOMAIN violations

\* "Double parking violations", the loop over the detections of one zone;
\* st = [double_parking_violations, events]
RECURSIVE DoubleParkingOfZone(_, _, _, _, _, _)
DoubleParkingOfZone(st, camera, zone_name, vehicles_in_zone, frame_number, now_) ==
    IF vehicles_in_zone = <<>> THEN st
    ELSE LET det == Head(vehicles_in_zone)
             track_id == TrackIdOr(det)
             stationary_time == StationaryTime(det)
         IN DoubleParkingOfZone(
                IF /\ ~QuotLess(stationary_time, DoubleParkingThresholdSec)
                   /\ ~Triggered(st.double_parking_violations, track_id)
                THEN [double_parking_violations |->
                          DictSet(st.double_parking_violations, track_id, now_),
                      events |->
                          Append(st.events,
                                 [event_type |-> "double_parking", camera_id |-> camera,
                                  zone_name |-> zone_name, track_id |-> track_id,
                                  stationary_seconds |-> stationary_time,
                                  frame_number |-> frame_number])]
                ELSE st,
                camera, zone_name, Tail(vehicles_in_zone), frame_number, now_)

\* "Double parking violations", the loop over the items of
\* double_parking_dets_by_zone
RECURSIVE DoubleParking(_, _, _, _, _)
DoubleParking(st, camera, double_parking_dets_by_zone, frame_number, now_) ==
    IF double_parking_dets_by_zone = <<>> THEN st
    ELSE DoubleParking(DoubleParkingOfZone(st, camera,
                                           Head(double_parking_dets_by_zone).zone_name,
                                           Head(double_parking_dets_by_zone).detections,
                                           frame_number, now_),
                       camera, Tail(double_parking_dets_by_zone), frame_number, now_)

\* "Red light violations", the loop over vehicle_detections, every one of
\* which has a vehicle class and a centre; st = [red_light_violation_tracker,
\* violations_log, events]
RECURSIVE RedLightViolations(_, _, _, _, _, _, _)
RedLightViolations(st, camera, stop_line_coords, vehicle_detections, light_is_red, frame_number, now_) ==
    IF vehicle_detections = <<>> THEN st
    ELSE LET det == Head(vehicle_detections)
             track_id == TrackIdOr(det)
             is_past_line == is_past_stop_line(det, stop_line_coords, FrameH, FrameW)
             call == check_violation(st.red_light_violation_tracker, det,
                                     light_is_red, is_past_line, now_)
         IN RedLightViolations(
                IF track_id < 0 THEN st
                ELSE [red_light_violation_tracker |-> call.self,
                      violations_log |-> LogViolation(st.violations_log, track_id,
                                                      call.ret, now_),
                      events |->
                          IF call.ret[1] /\ light_is_red /\ is_past_line
                          THEN Append(st.events,
                                      [event_type |-> "red_light_violation",
                                       camera_id |-> camera, zone_name |-> "stop_line",
                                       violation_id |-> call.ret[2],
                                       track_id |-> track_id, light_state |-> "red",
                                       frame_number |-> frame_number])
                          ELSE st.events],
                camera, stop_line_coords, Tail(vehicle_detections), light_is_red,
                frame_number, now_)

\* the next pass of the loop of process_video, on the detections given, while
\* the video has a frame of index at most max_frame.  An exception out of a
\* tracker ends the pass, and the video, where it is raised; what was written
\* before stays.
Frame(detections, max_frame) ==
    LET frame_idx == IF video_fps_configured THEN frame_count + frame_skip(FPS) ELSE 0
        tracker == IF video_fps_configured
                   THEN traffic_monitoring_tracker
                   ELSE set_interval_seconds(traffic_monitoring_tracker,
                                             TrafficMonitoringInterval, FPS)
    IN
    /\ video_raised = "none"
    /\ frame_idx <= max_frame
    /\ \E updated \in {UpdateAll(stationary_tracker, detections, frame_idx)} :
       \E traffic_dets_by_zone \in {get_detections_in_any_zone_of_type(camera_id, updated.ret, "traffic")} :
       \E send \in {should_send_event(tracker, camera_id, frame_idx)} :
       \E traffic \in {IF send.ret
                   THEN TrafficEvents(camera_id, camera_zones(camera_id),
                                      traffic_dets_by_zone, frame_idx)
                   ELSE <<>>} :
       \E parking_dets_by_zone \in {get_detections_in_any_zone_of_type(camera_id, updated.ret, "parking")} :
       \E double_parking_dets_by_zone \in {get_detections_in_any_zone_of_type(camera_id, updated.ret, "double_parking")} :
       \E entered \in {ParkingEntries([parking_tracker |-> parking_tracker,
                                   uuids |-> uuids,
                                   events |-> events \o traffic,
                                   raised |-> "none"],
                                  camera_id, parking_dets_by_zone, frame_idx, now)} :
       \E exited \in {ParkingExits(entered, camera_id,
                               ZonesToCheck(entered.parking_tracker, parking_dets_by_zone),
                               parking_dets_by_zone, frame_idx, now)} :
       \E stop_line_zone \in {get_zone_by_name(camera_id, "stop_line")} :
       \E light_is_red \in (IF stop_line_zone = None THEN {FALSE} ELSE BOOLEAN) :
       \E lighted \in {IF exited.raised = "none" /\ stop_line_zone # None
                   THEN RedLightViolations(
                            [red_light_violation_tracker |-> red_light_violation_tracker,
                             violations_log |-> violations_log,
                             events |-> exited.events],
                            camera_id, stop_line_zone.coordinates, updated.ret,
                            light_is_red, frame_idx, now)
                   ELSE [red_light_violation_tracker |-> red_light_violation_tracker,
                         violations_log |-> violations_log,
                         events |-> exited.events]} :
       \E doubled \in {IF exited.raised = "none"
                   THEN DoubleParking([double_parking_violations |-> double_parking_violations,
                                       events |-> lighted.events],
                                      camera_id, double_parking_dets_by_zone, frame_idx, now)
                   ELSE [double_parking_violations |-> double_parking_violations,
                         events |-> lighted.events]} :
       /\ exited.uuids <= MaxUuids
       /\ frame_count' = frame_idx
       /\ video_fps_configured' = TRUE
       /\ traffic_monitoring_tracker' = send.self
       /\ stationary_tracker' = updated.self
       /\ parking_tracker' = exited.parking_tracker
       /\ uuids' = exited.uuids
       /\ events' = doubled.events
       /\ double_parking_violations' = doubled.double_parking_violations
       /\ video_raised' = exited.raised
       /\ red_light_violation_tracker' = lighted.red_light_violation_tracker
       /\ violations_log' = lighted.violations_log
       /\ ret' = [op |-> "process_frame", detections |-> updated.ret]
       /\ UNCHANGED <<now, sessions_log, sender_vars, video, track_log, emit_log,
                      max_retries>>

\* the detections of a frame: track 0 anywhere, track 1 at the origin
FrameInputs ==
    { t0 \o t1 :
        t0 \in {<<>>, <<Detection(0, 0, 0)>>, <<Detection(0, 6, 8)>>, <<Detection(0, 20, 0)>>},
        t1 \in {<<>>, <<Detection(1, 0, 0)>>} }

\* one pass of the loop of process_video
ProcessFrame == \E detections \in FrameInputs : Frame(detections, MaxFrame)

RunnerNext == ProcessFrame \/ Tick

RunnerSpec == Init /\ [][RunnerNext]_vars

----------------------------------------------------------------------------
(* TrafficMonitoringTracker alone: should_send_event is polled for two     *)
(* cameras with any frame numbers, repeated and decreasing ones included.   *)

Cameras == {"cam1", "cam2"}

\* the polls answered True, in order
LogEmit(log, camera, frame, answer) ==
    IF answer THEN Append(log, [camera_id |-> camera, frame |-> frame]) ELSE log

ShouldSendEvent ==
    \E camera \in Cameras, frame \in 0..MaxPollFrame :
        LET send == should_send_event(traffic_monitoring_tracker, camera, frame)
        IN /\ traffic_monitoring_tracker' = send.self
           /\ emit_log' = LogEmit(emit_log, camera, frame, send.ret)
           /\ ret' = [op |-> "should_send_event", camera_id |-> camera,
                      current_frame_number |-> frame, ret |-> send.ret]
           /\ UNCHANGED <<parking_tracker, stationary_tracker, red_light_violation_tracker,
                          now, uuids, frame_count, video_fps_configured, events,
                          sessions_log, violations_log, sender_vars, video, track_log,
                          double_parking_violations, video_raised, max_retries>>

TrafficNext == ShouldSendEvent

TrafficSpec == Init /\ [][TrafficNext]_vars

----------------------------------------------------------------------------
(* point_in_polygon alone, called with a polygon and a point *)

\* the polygon k times as large
Enlarged(polygon, k) == [i \in DOMAIN polygon |-> <<polygon[i][1] * k, polygon[i][2] * k>>]

\* x1 * y2 - x2 * y1 for the edge from corner i
EdgeCross(polygon, i) ==
    LET j == (i % Len(polygon)) + 1
    IN polygon[i][1] * polygon[j][2] - polygon[j][1] * polygon[i][2]

RECURSIVE SumSeq(_)
SumSeq(terms) == IF terms = <<>> THEN 0 ELSE Head(terms) + SumSeq(Tail(terms))

\* twice the signed area
Area2(polygon) == SumSeq([i \in DOMAIN polygon |-> EdgeCross(polygon, i)])

CentroidTermX(polygon, i) ==
    (polygon[i][1] + polygon[(i % Len(polygon)) + 1][1]) * EdgeCross(polygon, i)

CentroidTermY(polygon, i) ==
    (polygon[i][2] + polygon[(i % Len(polygon)) + 1][2]) * EdgeCross(polygon, i)

Abs(n) == IF n < 0 THEN 0 - n ELSE n

\* the centroid of the area is (cx / k, cy / k)
Centroid(polygon) ==
    LET sign == IF Area2(polygon) < 0 THEN 0 - 1 ELSE 1
    IN [cx |-> sign * SumSeq([i \in DOMAIN polygon |-> CentroidTermX(polygon, i)]),
        cy |-> sign * SumSeq([i \in DOMAIN polygon |-> CentroidTermY(polygon, i)]),
        k  |-> 3 * Abs(Area2(polygon))]

\* the turn at corner i: positive to the left, negative to the right
Turn(polygon, i) ==
    LET j == (i % Len(polygon)) + 1
        k == (j % Len(polygon)) + 1
    IN (polygon[j][1] - polygon[i][1]) * (polygon[k][2] - polygon[j][2])
         - (polygon[j][2] - polygon[i][2]) * (polygon[k][1] - polygon[j][1])

IsConvex(polygon) ==
    \/ \A i \in DOMAIN polygon : Turn(polygon, i) >= 0
    \/ \A i \in DOMAIN polygon : Turn(polygon, i) =< 0

GridPoints == (0..MaxCoord) \X (0..MaxCoord)

\* every triangle with a corner at the origin and two on the grid, in both
\* senses of rotation
Triangles == {<<<<0, 0>>, b, c>> : b \in GridPoints, c \in GridPoints}

\* polygons with more corners: a rectangle, a convex pentagon, an L, a U and a
\* dart, none crossing itself
NamedPolygons ==
    { << <<0, 0>>, <<10, 0>>, <<10, 10>>, <<0, 10>> >>,
      << <<0, 0>>, <<4, 0>>, <<6, 3>>, <<2, 6>>, <<0, 4>> >>,
      << <<0, 0>>, <<6, 0>>, <<6, 2>>, <<2, 2>>, <<2, 6>>, <<0, 6>> >>,
      << <<0, 0>>, <<6, 0>>, <<6, 6>>, <<4, 6>>, <<4, 2>>, <<2, 2>>, <<2, 6>>, <<0, 6>> >>,
      << <<0, 0>>, <<3, 5>>, <<6, 0>>, <<3, 6>> >> }

\* the polygons tried: those above with an area
TestPolygons == {polygon \in Triangles \cup NamedPolygons : Area2(polygon) # 0}

PointInPolygon ==
    /\ \E polygon \in TestPolygons :
         \/ LET c == Centroid(polygon)
            IN ret' = [op |-> "point_in_polygon", polygon |-> polygon,
                       point |-> "centroid",
                       ret |-> point_in_polygon(<<c.cx, c.cy>>, Enlarged(polygon, c.k))]
         \/ /\ polygon \in NamedPolygons
            /\ \E point \in GridPoints :
                 ret' = [op |-> "point_in_polygon", polygon |-> polygon, point |-> point,
                         ret |-> point_in_polygon(point, polygon)]
    /\ UNCHANGED <<parking_tracker, stationary_tracker, red_light_violation_tracker,
                   now, uuids, frame_count, video_fps_configured, traffic_monitoring_tracker,
                   events, sessions_log, violations_log, sender_vars, video, track_log,
                   aux_vars>>

PolygonNext == PointInPolygon

PolygonSpec == Init /\ [][PolygonNext]_vars

----------------------------------------------------------------------------
(* ZoneDetector.get_detections_in_any_zone_of_type alone, called with the   *)
(* detections of a frame for a camera and a zone type.                      *)

\* detections in P1 and T1, in P2 and T1, in D1 and D2, in no zone, and two
\* without a track
GroupPool ==
    {Detection(0, 0, 0), Detection(0, 20, 0), Detection(1, 45, 5), Detection(1, 50, 50),
     Untracked(0, 0), Untracked(45, 5)}

GroupInputs == {<<>>} \cup {<<a>> : a \in GroupPool} \cup {<<a, b>> : a, b \in GroupPool}

ZoneTypes == {"parking", "traffic", "double_parking"}

GroupDetections ==
    /\ \E camera \in DOMAIN zones_config \cup {"cam3"}, detections \in GroupInputs,
          zone_type \in ZoneTypes :
         ret' = [op |-> "get_detections_in_any_zone_of_type", camera_id |-> camera,
                 detections |-> detections, zone_type |-> zone_type,
                 ret |-> get_detections_in_any_zone_of_type(camera, detections, zone_type)]
    /\ UNCHANGED <<parking_tracker, stationary_tracker, red_light_violation_tracker,
                   now, uuids, frame_count, video_fps_configured, traffic_monitoring_tracker,
                   events, sessions_log, violations_log, sender_vars, video, track_log,
                   aux_vars>>

GroupNext == GroupDetections

GroupSpec == Init /\ [][GroupNext]_vars

----------------------------------------------------------------------------
(* ZoneDetector on zones with too few points: point_in_polygon on polygons  *)
(* of 0, 1 and 2 vertices, is_past_stop_line on lines of 0, 1 and 2 points. *)
(* Coordinates of zones are normalized; the corners of the unit square are  *)
(* the whole numbers among them.                                            *)

UnitPoints == (0..MaxUnitCoord) \X (0..MaxUnitCoord)

\* the polygons of fewer than 3 vertices
ShortPolygons == {<<>>} \cup {<<a>> : a \in UnitPoints} \cup {<<a, b>> : a, b \in UnitPoints}

\* the lines of fewer than 2 points, and those of 2 points from the origin
StopLines == {<<>>} \cup {<<a>> : a \in UnitPoints} \cup {<<<<0, 0>>, b>> : b \in UnitPoints}

PointInShortPolygon ==
    /\ \E polygon \in ShortPolygons, point \in UnitPoints :
         ret' = [op |-> "point_in_polygon", polygon |-> polygon, point |-> point,
                 ret |-> point_in_polygon(point, polygon)]
    /\ UNCHANGED <<parking_tracker, stationary_tracker, red_light_violation_tracker,
                   now, uuids, frame_count, video_fps_configured, traffic_monitoring_tracker,
                   events, sessions_log, violations_log, sender_vars, video, track_log,
                   aux_vars>>

IsPastStopLine ==
    /\ \E stop_line_coords \in StopLines, cx \in 0..ImgW, cy \in 0..ImgH :
         ret' = [op |-> "is_past_stop_line", stop_line_coords |-> stop_line_coords,
                 detection |-> Untracked(cx, cy),
                 ret |-> is_past_stop_line(Untracked(cx, cy), stop_line_coords, ImgH, ImgW)]
    /\ UNCHANGED <<parking_tracker, stationary_tracker, red_light_violation_tracker,
                   now, uuids, frame_count, video_fps_configured, traffic_monitoring_tracker,
                   events, sessions_log, violations_log, sender_vars, video, track_log,
                   aux_vars>>

ShortZoneNext == PointInShortPolygon \/ IsPastStopLine

ShortZoneSpec == Init /\ [][ShortZoneNext]_vars

----------------------------------------------------------------------------
(* Delivery: DetectionRunner.send_event and the retry loop of              *)
(* BackendSender.send_event, one POST or one sleep at a time.  The frame    *)
(* loop is blocked while an event is being delivered.                       *)

\* the entry of send_log for a new event
NewSend == [posts |-> <<>>, sleeps |-> <<>>, result |-> "running"]

\* send_log with entry n changed
LogSend(log, n, entry) == [log EXCEPT ![n] = entry]

\* DetectionRunner.send_event is called with a new event
SendEvent ==
    /\ backend_sender.pc = "idle"
    /\ Len(events) < MaxEvents
    /\ \E event_type \in {"parking_status", "red_light_violation"} :
        events' = Append(events, [event_type |-> event_type, camera_id |-> camera_id])
    /\ send_log' = Append(send_log, NewSend)
    /\ backend_sender' = IF InRange(1, max_retries)
                         THEN [pc |-> "post", attempt |-> 1]
                         ELSE [pc |-> "return", attempt |-> 1]
    /\ ret' = [op |-> "send_event"]
    /\ UNCHANGED <<parking_tracker, stationary_tracker, red_light_violation_tracker,
                   now, uuids, frame_count, video_fps_configured,
                   traffic_monitoring_tracker, sessions_log, violations_log,
                   events_sent, events_dropped, video, track_log, aux_vars>>

\* one pass of the loop up to the sleep: requests.post and what follows it
Post ==
    /\ backend_sender.pc = "post"
    /\ \E response \in Responses :
        LET attempt == backend_sender.attempt
            n == Len(send_log)
            posted == [send_log[n] EXCEPT !.posts = Append(@, Success(response))]
        IN /\ ret' = [op |-> "post", attempt |-> attempt, response |-> response]
           /\ IF Success(response)
              THEN /\ backend_sender' = BackendSenderIdle
                   /\ events_sent' = Counted(events_sent, TRUE)
                   /\ events_dropped' = events_dropped
                   /\ send_log' = LogSend(send_log, n, [posted EXCEPT !.result = "true"])
              ELSE /\ backend_sender' =
                        IF Backoff(attempt, max_retries)
                        THEN [pc |-> "sleep", attempt |-> attempt]
                        ELSE IF InRange(attempt + 1, max_retries)
                        THEN [pc |-> "post", attempt |-> attempt + 1]
                        ELSE [pc |-> "return", attempt |-> attempt]
                   /\ send_log' = LogSend(send_log, n, posted)
                   /\ UNCHANGED <<events_sent, events_dropped, video, track_log, aux_vars>>
    /\ UNCHANGED <<parking_tracker, stationary_tracker, red_light_violation_tracker,
                   now, uuids, frame_count, video_fps_configured,
                   traffic_monitoring_tracker, events, sessions_log, violations_log, video, track_log, aux_vars>>

\* time.sleep(wait_time), then the next pass of the loop or its end
Sleep ==
    /\ backend_sender.pc = "sleep"
    /\ LET attempt == backend_sender.attempt
           n == Len(send_log)
       IN /\ now' = now + wait_time(attempt)
          /\ send_log' = LogSend(send_log, n,
                                 [send_log[n] EXCEPT !.sleeps =
                                    Append(@, [after |-> attempt,
                                               wait_time |-> wait_time(attempt)])])
          /\ backend_sender' = IF InRange(attempt + 1, max_retries)
                               THEN [pc |-> "post", attempt |-> attempt + 1]
                               ELSE [pc |-> "return", attempt |-> attempt]
          /\ ret' = [op |-> "sleep", attempt |-> attempt]
    /\ UNCHANGED <<parking_tracker, stationary_tracker, red_light_violation_tracker,
                   uuids, frame_count, video_fps_configured,
                   traffic_monitoring_tracker, events, sessions_log, violations_log,
                   events_sent, events_dropped, video, track_log, aux_vars>>

\* the loop is over: send_event returns False and the runner counts the drop
ReturnFalse ==
    /\ backend_sender.pc = "return"
    /\ backend_sender' = BackendSenderIdle
    /\ events_dropped' = Counted(events_dropped, TRUE)
    /\ send_log' = LogSend(send_log, Len(send_log),
                           [send_log[Len(send_log)] EXCEPT !.result = "false"])
    /\ ret' = [op |-> "return"]
    /\ UNCHANGED <<parking_tracker, stationary_tracker, red_light_violation_tracker,
                   now, uuids, frame_count, video_fps_configured,
                   traffic_monitoring_tracker, events, sessions_log, violations_log,
                   events_sent, video, track_log, aux_vars>>

SenderNext == SendEvent \/ Post \/ Sleep \/ ReturnFalse

SenderSpec == Init /\ [][SenderNext]_vars

\* the sender of a runner whose Config has any "max_retries" from 0 on
RetryInit == \E config_max_retries \in 0..MaxRetries : InitWith(config_max_retries)

RetrySpec == RetryInit /\ [][SenderNext]_vars

\* requests.post returns or raises within its timeout, time.sleep returns, and
\* the code after the loop is run
RetryLive == RetrySpec /\ WF_vars(Post) /\ WF_vars(Sleep) /\ WF_vars(ReturnFalse)

----------------------------------------------------------------------------
(* The StationaryTracker as the runner feeds it: the calls of update of     *)
(* each frame of each video of main's loop over video_files.  The tracker   *)
(* is created once per DetectionRunner and reads nothing but the detections *)
(* and the frame index.                                                     *)

\* the squared distance of two points
Dist2(x1, y1, x2, y2) == (x1 - x2) * (x1 - x2) + (y1 - y2) * (y1 - y2)

\* track_log after the calls of update of one frame, from what they returned:
\* the position, frame and duration of the call, the first frame of the run of
\* calls whose displacement from the call before is at most epsilon, and the
\* frame of the last call that reported the track as moving
RECURSIVE LogUpdates(_, _, _)
LogUpdates(log, vehicle_detections, frame_idx) ==
    IF vehicle_detections = <<>> THEN log
    ELSE LET det == Head(vehicle_detections)
             track_id == det.track_id
             known == track_id \in DOMAIN log
             near == known /\ Dist2(det.cx, det.cy, log[track_id].cx, log[track_id].cy)
                                <= EpsilonPx * EpsilonPx
             entry == [cx |-> det.cx, cy |-> det.cy, frame_idx |-> frame_idx,
                       stationary_duration_sec |-> det.stationary_duration_sec,
                       first_frame |-> IF near THEN log[track_id].first_frame
                                       ELSE frame_idx,
                       moving_frame |-> IF det.is_stationary
                                        THEN log[track_id].moving_frame
                                        ELSE frame_idx]
         IN LogUpdates(DictSet(log, track_id, entry), Tail(vehicle_detections), frame_idx)

\* the detections of a frame: track 0 creeping along a line, track 1 at rest
DriftInputs ==
    { t0 \o t1 :
        t0 \in {<<>>, <<Detection(0, 0, 0)>>, <<Detection(0, 6, 8)>>,
                <<Detection(0, 12, 16)>>},
        t1 \in {<<>>, <<Detection(1, 0, 0)>>} }

\* the calls of update of one pass of the loop of process_video
UpdateFrame ==
    \E detections \in DriftInputs :
        LET frame_idx == IF video_fps_configured THEN frame_count + frame_skip(FPS) ELSE 0
            updated == UpdateAll(stationary_tracker, detections, frame_idx)
        IN /\ frame_idx <= MaxDriftFrame
           /\ frame_count' = frame_idx
           /\ video_fps_configured' = TRUE
           /\ stationary_tracker' = updated.self
           /\ track_log' = LogUpdates(track_log, updated.ret, frame_idx)
           /\ ret' = [op |-> "update", detections |-> updated.ret]
           /\ UNCHANGED <<parking_tracker, red_light_violation_tracker, now, uuids,
                          traffic_monitoring_tracker, events, sessions_log,
                          violations_log, sender_vars, video, aux_vars>>

\* main: process_video is called for the next file of video_files
NextVideo ==
    /\ video + 1 < MaxVideos
    /\ video' = video + 1
    /\ frame_count' = 0
    /\ video_fps_configured' = FALSE
    /\ double_parking_violations' = <<>>
    /\ video_raised' = "none"
    /\ ret' = [op |-> "process_video"]
    /\ UNCHANGED <<parking_tracker, stationary_tracker, red_light_violation_tracker,
                   now, uuids, traffic_monitoring_tracker, events, sessions_log,
                   violations_log, sender_vars, track_log, emit_log, max_retries>>

StationaryNext == UpdateFrame \/ NextVideo

StationarySpec == Init /\ [][StationaryNext]_vars

----------------------------------------------------------------------------
(* process_video on frames whose boxes have no ids: every detection of such *)
(* a frame has track_id None.                                               *)

UntrackedInputs ==
    {<<>>, <<Detection(0, 0, 0)>>, <<Untracked(0, 0)>>, <<Untracked(45, 5)>>,
     <<Untracked(0, 0), Untracked(45, 5)>>}

UntrackedFrame == \E detections \in UntrackedInputs : Frame(detections, MaxUntrackedFrame)

UntrackedNext == UntrackedFrame \/ NextVideo

UntrackedSpec == Init /\ [][UntrackedNext]_vars

----------------------------------------------------------------------------
(* One DetectionRunner on the videos of two cameras in turn: track 0        *)
(* stands in the parking zone P1, track 1 in the double-parking zones.      *)

CameraInputs ==
    { t0 \o t1 :
        t0 \in {<<>>, <<Detection(0, 0, 0)>>},
        t1 \in {<<>>, <<Detection(1, 45, 5)>>} }

CameraFrame == \E detections \in CameraInputs : Frame(detections, MaxCameraFrame)

CamerasNext == CameraFrame \/ NextVideo \/ Tick

CamerasSpec == Init /\ [][CamerasNext]_vars

----------------------------------------------------------------------------
(* The videos of cam1 and cam2 in turn with the track ids 0 and 1: each     *)
(* track is absent, past the stop line of cam2, or in the double-parking    *)
(* zones.                                                                   *)

ValidityInputs ==
    { t0 \o t1 :
        t0 \in {<<>>, <<Detection(0, 60, 60)>>, <<Detection(0, 45, 5)>>},
        t1 \in {<<>>, <<Detection(1, 60, 60)>>, <<Detection(1, 45, 5)>>} }

ValidityFrame == \E detections \in ValidityInputs : Frame(detections, MaxValidityFrame)

ValidityNext == ValidityFrame \/ NextVideo

ValiditySpec == Init /\ [][ValidityNext]_vars

----------------------------------------------------------------------------
(* The frame loop with the delivery of its events: DetectionRunner.send_event *)
(* calls BackendSender.send_event and goes on when that has returned.  The  *)
(* tracker updates of a frame are taken at once, before the deliveries of   *)
(* its events; send_log[n] is the delivery of events[n].                    *)

\* mutant of Returned: the caller does not wait
Returned_Always(sender) == TRUE

\* the call of BackendSender.send_event is not on the stack
Returned(sender) == sender.pc = "idle"

DeliveryInputs ==
    { t0 \o t1 : t0 \in {<<>>, <<Detection(0, 0, 0)>>}, t1 \in {<<>>, <<Detection(1, 45, 5)>>} }

\* the next pass of the loop of process_video, when the events of the last are
\* all handed over
DeliveryFrame ==
    /\ Returned(backend_sender)
    /\ Len(send_log) = Len(events)
    /\ \E detections \in DeliveryInputs : Frame(detections, MaxDeliveryFrame)

\* DetectionRunner.send_event is called with the next event of the frame
Deliver ==
    /\ Returned(backend_sender)
    /\ Len(send_log) < Len(events)
    /\ send_log' = Append(send_log, NewSend)
    /\ backend_sender' = IF InRange(1, max_retries)
                         THEN [pc |-> "post", attempt |-> 1]
                         ELSE [pc |-> "return", attempt |-> 1]
    /\ ret' = [op |-> "send_event"]
    /\ UNCHANGED <<parking_tracker, stationary_tracker, red_light_violation_tracker,
                   now, uuids, frame_count, video_fps_configured,
                   traffic_monitoring_tracker, events, sessions_log, violations_log,
                   events_sent, events_dropped, video, track_log, aux_vars>>

DeliveryNext == DeliveryFrame \/ Deliver \/ Post \/ Sleep \/ ReturnFalse

DeliverySpec == Init /\ [][DeliveryNext]_vars


----------------------------------------------------------------------------
(* Claims about the ParkingTracker, under Spec *)

\* the step is a call of check_parking_entry / check_parking_exit
EntryStep == ret'.op = "check_parking_entry" /\ now' = now
ExitStep == ret'.op = "check_parking_exit" /\ now' = now

\* the track is recorded as seen for the zone
Seen(self, zone_name, track_id) ==
    /\ zone_name \in DOMAIN self.seen_track_ids
    /\ track_id \in self.seen_track_ids[zone_name]

\* the sessions the tracker has issued for (zone, track) and not closed
Unclosed(log, zone_name, track_id) ==
    {n \in DOMAIN log : /\ log[n].zone_name = zone_name
                        /\ log[n].track_id = track_id
                        /\ ~log[n].closed}

\* C2: check_parking_entry returns (true, eventId) exactly when the stationary
\* duration is at least the threshold, the track id is non-negative and the
\* track is not recorded as seen for the zone; otherwise it returns (false, none)
C2_EntryResult ==
    [][EntryStep =>
        LET r == ret'
            accept == /\ r.stationary_seconds # None
                      /\ r.stationary_seconds[1] >= ParkingThresholdSec * r.stationary_seconds[2]
                      /\ r.track_id >= 0
                      /\ ~Seen(parking_tracker, r.zone_name, r.track_id)
        IN IF accept
           THEN r.result[1] = TRUE /\ r.result[2] = uuid4(uuids')
           ELSE r.result = <<FALSE, None>>]_vars

\* a call that was refused although the duration and the track id were fine
C2_Witness ==
    /\ ret.op = "check_parking_entry"
    /\ ret.result = <<FALSE, None>>
    /\ ret.stationary_seconds = AtThreshold
    /\ ret.track_id >= 0
    /\ Seen(parking_tracker, ret.zone_name, ret.track_id)

\* C3: at most one active session per (zone, track id), and a track recorded as
\* seen for a zone gets no second entry before check_parking_exit has closed
\* its session
C3_OneSession ==
    /\ [](\A z \in Zones, t \in TrackIds :
            /\ Cardinality(Unclosed(sessions_log, z, t)) <= 1
            /\ Seen(parking_tracker, z, t) <=> Unclosed(sessions_log, z, t) # {})
    /\ [][EntryStep /\ ret'.result[1] =>
            /\ ~Seen(parking_tracker, ret'.zone_name, ret'.track_id)
            /\ Unclosed(sessions_log, ret'.zone_name, ret'.track_id) = {}]_vars
    /\ [][\A n \in DOMAIN sessions_log :
            ~sessions_log[n].closed /\ sessions_log'[n].closed =>
                /\ ExitStep
                /\ ret'.zone_name = sessions_log[n].zone_name]_vars

\* a track that entered a zone, left it and entered it again
C3_Witness ==
    \E n, m \in DOMAIN sessions_log :
        /\ n < m
        /\ sessions_log[n].zone_name = sessions_log[m].zone_name
        /\ sessions_log[n].track_id = sessions_log[m].track_id
        /\ sessions_log[n].closed
        /\ ~sessions_log[m].closed

\* what an exit step does to the session of track t of the zone it is called on:
\* Closes(t) on the call where its counter reaches the debounce threshold
Reaches(t) ==
    /\ t \notin ret'.present
    /\ SessionsOf(parking_tracker, ret'.zone_name)[t].missing_frames + 1 >= ExitDebounceFrames

ExitsFor(t) ==
    CountExits(ret'.result, SessionsOf(parking_tracker, ret'.zone_name)[t].event_id)

StaysOpen(t, missing) ==
    /\ t \in DOMAIN SessionsOf(parking_tracker', ret'.zone_name)
    /\ SessionsOf(parking_tracker', ret'.zone_name)[t] =
         [SessionsOf(parking_tracker, ret'.zone_name)[t] EXCEPT !.missing_frames = missing]

\* C4 as stated: a session closed by exit_debounce_frames consecutive absences
\* has fired exactly one exit event, an open one none
C4_ExactlyOneExit ==
    \A n \in DOMAIN sessions_log :
        sessions_log[n].exits = IF sessions_log[n].closed THEN 1 ELSE 0

\* C4 amended: the call on which the counter reaches the threshold closes the
\* session and fires exactly one exit event for it if now - entry_time >= 30 s
\* and none otherwise; no other call fires an exit event for it
C4_OneExitIfGate ==
    /\ [](\A n \in DOMAIN sessions_log :
            /\ sessions_log[n].exits <= 1
            /\ ~sessions_log[n].closed => sessions_log[n].exits = 0)
    /\ [](\A z \in DOMAIN parking_tracker.zone_tracked_ids :
            \A t \in DOMAIN parking_tracker.zone_tracked_ids[z] :
                parking_tracker.zone_tracked_ids[z][t].missing_frames < ExitDebounceFrames)
    /\ [][ExitStep =>
            \A t \in DOMAIN SessionsOf(parking_tracker, ret'.zone_name) :
                LET v == SessionsOf(parking_tracker, ret'.zone_name)[t] IN
                IF Reaches(t)
                THEN /\ t \notin DOMAIN SessionsOf(parking_tracker', ret'.zone_name)
                     /\ ExitsFor(t) = IF now - v.entry_time >= ExitGateSec THEN 1 ELSE 0
                ELSE /\ t \in DOMAIN SessionsOf(parking_tracker', ret'.zone_name)
                     /\ ExitsFor(t) = 0]_vars
    /\ [][ExitStep =>
            \A i \in DOMAIN ret'.result :
                ret'.result[i][1] \in OpenEventIds(parking_tracker, ret'.zone_name)]_vars

\* a session that fired its exit event, and a later call on its zone that fires
\* nothing for it
C4_Witness ==
    \E n \in DOMAIN sessions_log :
        /\ sessions_log[n].closed
        /\ sessions_log[n].exits = 1
        /\ ret.op = "check_parking_exit"
        /\ ret.zone_name = sessions_log[n].zone_name
        /\ CountExits(ret.result, sessions_log[n].event_id) = 0

\* C5: a track absent for fewer than exit_debounce_frames consecutive calls
\* fires no exit event, and when it is present again its session stays open
\* with the same event id and its counter is reset to 0
C5_Reappear ==
    [][ExitStep =>
        \A t \in DOMAIN SessionsOf(parking_tracker, ret'.zone_name) :
            LET v == SessionsOf(parking_tracker, ret'.zone_name)[t] IN
            /\ (t \in ret'.present /\ v.missing_frames > 0)
                    => StaysOpen(t, 0) /\ ExitsFor(t) = 0
            /\ (t \notin ret'.present /\ v.missing_frames + 1 < ExitDebounceFrames)
                    => StaysOpen(t, v.missing_frames + 1) /\ ExitsFor(t) = 0]_vars

\* a session whose counter was reset by the last call
C5_Witness ==
    /\ ret.op = "check_parking_exit"
    /\ ret.reappeared # {}
    /\ ret.result = <<>>

\* C7 as stated: when the counter reaches the threshold an exit record is
\* emitted exactly when now - entry_time is at least the entry threshold
C7_ExitIffEntryThreshold ==
    [][ExitStep =>
        \A t \in DOMAIN SessionsOf(parking_tracker, ret'.zone_name) :
            Reaches(t) =>
                (ExitsFor(t) = 1 <=>
                    now - SessionsOf(parking_tracker, ret'.zone_name)[t].entry_time
                        >= ParkingThresholdSec)]_vars

\* C8: a confirmed exit removes the track from the zone's seen set, and the next
\* check_parking_entry for the zone and track with a duration at or above the
\* threshold returns an entry with an event id no earlier session had
C8_ReEntry ==
    /\ [][\A n \in DOMAIN sessions_log :
            ~sessions_log[n].closed /\ sessions_log'[n].closed =>
                ~Seen(parking_tracker', sessions_log[n].zone_name, sessions_log[n].track_id)]_vars
    /\ [][(/\ EntryStep
           /\ ret'.stationary_seconds = AtThreshold
           /\ ret'.track_id >= 0
           /\ Unclosed(sessions_log, ret'.zone_name, ret'.track_id) = {}
           /\ \E n \in DOMAIN sessions_log :
                /\ sessions_log[n].zone_name = ret'.zone_name
                /\ sessions_log[n].track_id = ret'.track_id)
          => /\ ret'.result[1] = TRUE
             /\ \A n \in DOMAIN sessions_log : sessions_log[n].event_id # ret'.result[2]
             /\ Seen(parking_tracker', ret'.zone_name, ret'.track_id)]_vars

\* the entry returned by the last call re-opens a (zone, track) whose earlier
\* session is closed
C8_Witness ==
    /\ ret.op = "check_parking_entry"
    /\ ret.result[1] = TRUE
    /\ \E n \in DOMAIN sessions_log :
        /\ sessions_log[n].zone_name = ret.zone_name
        /\ sessions_log[n].track_id = ret.track_id
        /\ sessions_log[n].closed
        /\ sessions_log[n].event_id # ret.result[2]

----------------------------------------------------------------------------
(* Claims about the RedLightViolationTracker, under RedLightSpec *)

ViolationStep == ret'.op = "check_violation" /\ now' = now

\* the violations returned for a track so far
ViolationsOf(track_id) ==
    {n \in DOMAIN violations_log : violations_log[n].track_id = track_id}

\* the track has a violation younger than the cooldown
InCooldown(track_id) ==
    \E n \in ViolationsOf(track_id) : now - violations_log[n].time < CooldownSec

\* C9: for one track, two calls that return a violation are at least
\* cooldown_sec apart; while the vehicle stays past the line under a red light,
\* a call returns a violation exactly when the track has none in the last
\* cooldown_sec seconds
C9_OnePerCooldown ==
    /\ [](\A n, m \in DOMAIN violations_log :
            (n < m /\ violations_log[n].track_id = violations_log[m].track_id)
                => violations_log[m].time - violations_log[n].time >= CooldownSec)
    /\ [][(/\ ViolationStep
           /\ ret'.track_id >= 0
           /\ ret'.light_is_red
           /\ ret'.vehicle_crossed_stop_line)
          => (ret'.result[1] <=> ~InCooldown(ret'.track_id))]_vars

\* a call under a red light with the vehicle past the line that returned no
\* violation, the track having violated before
C9_Witness ==
    /\ ret.op = "check_violation"
    /\ ret.light_is_red
    /\ ret.vehicle_crossed_stop_line
    /\ ret.track_id >= 0
    /\ ret.result = <<FALSE, None>>
    /\ ViolationsOf(ret.track_id) # {}

----------------------------------------------------------------------------
(* Claims about the frame loop, under RunnerSpec *)

FrameStep == ret'.op = "process_frame"

\* the events sent by the step
NewEvents == SubSeq(events', Len(events) + 1, Len(events'))

\* the entry events of a sequence of events that are for track_id in zone_name
EntriesFor(evs, zone_name, track_id) ==
    {n \in DOMAIN evs :
        /\ evs[n].event_type = "parking_status"
        /\ evs[n].parking_event_type = "entry"
        /\ evs[n].zone_name = zone_name
        /\ evs[n].track_ids = <<track_id>>}

\* the names of the parking zones that hold the detection
ParkingZonesOf(det) ==
    LET zones == SelectSeq(get_vehicle_zones(camera_id, det),
                           LAMBDA zone : zone.type = "parking")
    IN {zones[i].name : i \in DOMAIN zones}

\* C1: on a frame, a tracked detection in a parking zone whose reference frame
\* is less than threshold * fps frames back gets no entry event; one that is
\* at least that far back gets exactly one entry event, carrying the frame's
\* number, if the track has no session in the zone yet, and none if it has; two
\* entry events of one track in one zone are more than exit_debounce_frames
\* processed frames apart
C1_EntryAtThreshold ==
    /\ [][FrameStep =>
            \A i \in DOMAIN ret'.detections :
                LET det == ret'.detections[i]
                    track_id == det.track_id
                    frames == frame_count'
                              - stationary_tracker'.track_state[track_id].stationary_start_frame
                IN \A zone_name \in ParkingZonesOf(det) :
                    LET new == EntriesFor(NewEvents, zone_name, track_id) IN
                    IF frames < ParkingThresholdSec * FPS
                    THEN new = {}
                    ELSE IF Seen(parking_tracker, zone_name, track_id)
                    THEN new = {}
                    ELSE /\ Cardinality(new) = 1
                         /\ \A n \in new : NewEvents[n].frame_number = frame_count']_vars
    /\ [](\A zone_name \in Zones, track_id \in TrackIds :
            \A n, m \in EntriesFor(events, zone_name, track_id) :
                n < m => events[m].frame_number - events[n].frame_number
                            > ExitDebounceFrames * frame_skip(FPS))

\* a frame on which a detection is exactly threshold * fps frames past its
\* reference frame and the track's entry event for the zone is sent
C1_Witness ==
    /\ ret.op = "process_frame"
    /\ \E i \in DOMAIN ret.detections :
        /\ ret.detections[i].stationary_duration_sec = AtThreshold
        /\ \E n \in EntriesFor(events, "P1", ret.detections[i].track_id) :
                events[n].frame_number = frame_count

\* C6: the duration of an exit event, times fps, is the number of frames from
\* the frame of the session's entry event to the frame of the exit event
C6_FrameDuration ==
    \A n, m \in DOMAIN events :
        (/\ events[n].event_type = "parking_status"
         /\ events[m].event_type = "parking_status"
         /\ events[n].parking_event_type = "entry"
         /\ events[m].parking_event_type = "exit"
         /\ events[n].event_id = events[m].event_id)
            => events[m].parking_duration_seconds * FPS
                    = events[m].frame_number - events[n].frame_number

\* C11: a call returns a violation only if the light is red, the vehicle is
\* past the line on this call, and the track was not recorded in
\* crossed_vehicles when the call began
C11_JustCrossed ==
    [][(ViolationStep /\ ret'.result[1])
        => /\ ret'.light_is_red
           /\ ret'.vehicle_crossed_stop_line
           /\ ret'.track_id \notin DOMAIN red_light_violation_tracker.crossed_vehicles]_vars

\* C12: a call with the light not red returns (False, None), adds no
\* violation record and changes none; it records or clears the track in
\* crossed_vehicles and nothing else
C12_NotRedNoViolation ==
    [][(ViolationStep /\ ~ret'.light_is_red)
        => /\ ret'.result = <<FALSE, None>>
           /\ violations_log' = violations_log
           /\ \A t \in DOMAIN red_light_violation_tracker'.violations :
                /\ t \in DOMAIN red_light_violation_tracker.violations
                /\ red_light_violation_tracker'.violations[t]
                        = red_light_violation_tracker.violations[t]
           /\ ret'.track_id >= 0 =>
                (ret'.track_id \in DOMAIN red_light_violation_tracker'.crossed_vehicles
                    <=> ret'.vehicle_crossed_stop_line)]_vars

\* a call with the light not red for a vehicle past the line whose record
\* has been pruned, another track still holding a violation record
C12_Witness ==
    /\ ret.op = "check_violation"
    /\ ~ret.light_is_red
    /\ ret.vehicle_crossed_stop_line
    /\ ret.track_id >= 0
    /\ ViolationsOf(ret.track_id) # {}
    /\ ret.track_id \notin DOMAIN red_light_violation_tracker.violations
    /\ red_light_violation_tracker.violations # <<>>

----------------------------------------------------------------------------
(* Claims about the delivery of events, under SenderSpec *)

\* every POST of the event so far has failed
AllFailed(n) == \A i \in DOMAIN send_log[n].posts : ~send_log[n].posts[i]

\* C13: an event whose every POST fails gets exactly max_retries POSTs and then
\* False: send_event returns False only after max_retries failed POSTs, and
\* after max_retries failed POSTs it does nothing but return
C13_AllFail ==
    [](\A n \in DOMAIN send_log :
        /\ send_log[n].result = "false"
            => (Len(send_log[n].posts) = MaxRetries /\ AllFailed(n))
        /\ (/\ send_log[n].result = "running"
            /\ AllFailed(n)
            /\ Len(send_log[n].posts) = MaxRetries) => backend_sender.pc = "return"
        /\ (/\ send_log[n].result = "running"
            /\ Len(send_log[n].posts) < MaxRetries)
                => backend_sender.pc \in {"post", "sleep"})

\* send_event has returned False
C13_Witness ==
    \E n \in DOMAIN send_log :
        send_log[n].result = "false" /\ Len(send_log[n].posts) = MaxRetries

\* C14: the POST that is answered 200 or 201 ends the call with True, its
\* number being the number of POSTs made; an event that got True has its one
\* successful POST last, and no POST is made for it afterwards
C14_FirstSuccess ==
    /\ [][(/\ ret'.op = "post"
           /\ ret'.response.raised = "none"
           /\ ret'.response.status_code \in {200, 201})
          => /\ send_log'[Len(events)].result = "true"
             /\ Len(send_log'[Len(events)].posts) = ret'.attempt
             /\ ret'.attempt <= MaxRetries
             /\ backend_sender'.pc = "idle"]_vars
    /\ [](\A n \in DOMAIN send_log :
            /\ \A i \in DOMAIN send_log[n].posts :
                    send_log[n].posts[i]
                        => (i = Len(send_log[n].posts) /\ send_log[n].result = "true")
            /\ send_log[n].result = "true"
                    => (send_log[n].posts # <<>>
                        /\ send_log[n].posts[Len(send_log[n].posts)]))
    /\ [][\A n \in DOMAIN send_log :
            send_log[n].result = "true" => send_log'[n] = send_log[n]]_vars

\* the second POST was answered 201
C14_Witness ==
    /\ ret.op = "post"
    /\ ret.response = Response(201, "none")
    /\ ret.attempt = 2
    /\ send_log[Len(events)].result = "true"

Backoffs == <<1, 2, 4, 8, 10, 10, 10, 10>>

\* C17: the sleeps of an event follow its failed attempts 1, 2, ... in turn,
\* the sleep after attempt i lasting Backoffs[i] seconds, i < max_retries; a
\* successful attempt and the last failed attempt are followed by none
C17_Backoff ==
    /\ [](\A n \in DOMAIN send_log :
            LET posts == send_log[n].posts
                sleeps == send_log[n].sleeps
            IN /\ \A j \in DOMAIN sleeps :
                    /\ sleeps[j].after = j
                    /\ j < MaxRetries
                    /\ j \in DOMAIN posts /\ ~posts[j]
                    /\ sleeps[j].wait_time = Backoffs[j]
               /\ Len(sleeps) =
                    IF posts = <<>> THEN 0
                    ELSE IF n = Len(send_log) /\ backend_sender.pc = "post"
                    THEN Len(posts)
                    ELSE Len(posts) - 1
               /\ (n = Len(send_log) /\ backend_sender.pc = "sleep")
                    => (~posts[Len(posts)] /\ Len(posts) < MaxRetries))
    /\ [][ret'.op = "sleep" => now' - now = Backoffs[ret'.attempt]]_vars
    /\ [][ret'.op # "sleep" => now' = now]_vars

\* an event dropped after every backoff, the last one at the cap
C17_Witness ==
    \E n \in DOMAIN send_log :
        /\ send_log[n].result = "false"
        /\ Len(send_log[n].sleeps) = MaxRetries - 1
        /\ send_log[n].sleeps[MaxRetries - 1].wait_time = BackoffCapSec

----------------------------------------------------------------------------
(* Claims about the StationaryTracker, under StationarySpec *)

UpdateStep == ret'.op = "update"

\* the track had a call of update before the step
Known(track_id) == track_id \in DOMAIN track_log

C19_MoveResets ==
    /\ [][UpdateStep =>
            \A i \in DOMAIN ret'.detections :
                LET det == ret'.detections[i]
                    track_id == det.track_id
                    state == stationary_tracker.track_state[track_id]
                IN (/\ track_id \in DOMAIN stationary_tracker.track_state
                    /\ Dist2(det.cx, det.cy, state.last_x, state.last_y)
                            > EpsilonPx * EpsilonPx)
                    => /\ ~det.is_stationary
                       /\ det.stationary_duration_sec[1] = 0
                       /\ det.stationary_start_frame = frame_count'
                       /\ stationary_tracker'.track_state[track_id]
                            = [last_x |-> det.cx, last_y |-> det.cy,
                               stationary_start_frame |-> frame_count']]_vars
    /\ [](ret.op = "update" =>
            \A i \in DOMAIN ret.detections :
                LET det == ret.detections[i] IN
                /\ det.stationary_start_frame = track_log[det.track_id].moving_frame
                /\ det.is_stationary =>
                    det.stationary_duration_sec
                        = <<frame_count - track_log[det.track_id].moving_frame, FPS>>)

\* a call that reports a track as stationary, measured from the frame of a
\* move and not from the track's first sighting
C19_Witness ==
    /\ ret.op = "update"
    /\ video = 0
    /\ \E i \in DOMAIN ret.detections :
        LET det == ret.detections[i] IN
        /\ det.is_stationary
        /\ det.stationary_duration_sec[1] > 0
        /\ track_log[det.track_id].moving_frame > 0

\* C20: every duration update returns is at least 0
C20_NonNegative ==
    ret.op = "update" =>
        \A i \in DOMAIN ret.detections : ret.detections[i].stationary_duration_sec[1] >= 0

----------------------------------------------------------------------------
(* Claims about TrafficMonitoringTracker, checked under TrafficSpec *)

PollStep == ret'.op = "should_send_event"

\* the frames of the polls of a camera answered True, in order
EmitsOf(log, camera) == SelectSeq(log, LAMBDA e : e.camera_id = camera)

\* the frame the present window of a camera starts at
WindowStart(camera) ==
    LET mine == EmitsOf(emit_log, camera)
    IN IF mine = <<>> THEN 0 ELSE mine[Len(mine)].frame

\* C21: per camera the polls answered True are at least interval_frames
\* frames apart (the first at least interval_frames after frame 0), a poll
\* inside the window begun by the last of them is answered False however often
\* it is repeated, and the first poll at or past the end of the window is
\* answered True.
C21_OncePerWindow ==
    [][PollStep =>
         LET camera == ret'.camera_id
             frame == ret'.current_frame_number
             interval == traffic_monitoring_tracker.interval_frames
             mine == EmitsOf(emit_log', camera)
         IN /\ ret'.ret = (frame >= WindowStart(camera) + interval)
            /\ \A i \in 1..Len(mine) :
                   mine[i].frame >= (IF i = 1 THEN 0 ELSE mine[i - 1].frame) + interval
            /\ \A other \in Cameras \ {camera} :
                   EmitsOf(emit_log', other) = EmitsOf(emit_log, other)]_vars

\* a camera is polled twice with the frame of its second True answer
C21_Witness ==
    /\ ret.op = "should_send_event"
    /\ ~ret.ret
    /\ Len(EmitsOf(emit_log, ret.camera_id)) = 2
    /\ WindowStart(ret.camera_id) = ret.current_frame_number

\* lastEmittedFrame of the spec
lastEmittedFrame(self, camera) ==
    IF camera \in DOMAIN self.last_event_frame THEN self.last_event_frame[camera] ELSE 0

\* C22: should_send_event(camera, frame) returns true exactly when
\* frame - lastEmittedFrame(camera) >= interval_frames; on true
\* lastEmittedFrame(camera) becomes frame, on false it keeps its value, and
\* the remembered frame of every other camera is unchanged.
C22_ShouldSend ==
    [][PollStep =>
         LET camera == ret'.camera_id
             frame == ret'.current_frame_number
             before == traffic_monitoring_tracker
             after == traffic_monitoring_tracker'
         IN /\ ret'.ret = (frame - lastEmittedFrame(before, camera) >= before.interval_frames)
            /\ lastEmittedFrame(after, camera) =
                   (IF ret'.ret THEN frame ELSE lastEmittedFrame(before, camera))
            /\ \A other \in Cameras \ {camera} :
                   /\ (other \in DOMAIN after.last_event_frame)
                          = (other \in DOMAIN before.last_event_frame)
                   /\ lastEmittedFrame(after, other) = lastEmittedFrame(before, other)
            /\ after.interval_frames = before.interval_frames]_vars

\* a poll is answered True while the other camera has a remembered frame of its own
C22_Witness ==
    /\ ret.op = "should_send_event"
    /\ ret.ret
    /\ \E other \in Cameras \ {ret.camera_id} :
           /\ other \in DOMAIN traffic_monitoring_tracker.last_event_frame
           /\ traffic_monitoring_tracker.last_event_frame[other] > 0
           /\ traffic_monitoring_tracker.last_event_frame[other]
                  # traffic_monitoring_tracker.last_event_frame[ret.camera_id]

----------------------------------------------------------------------------
(* The exit-cooldown list, checked under Spec *)

\* the tracker with every zone's recent_exits emptied
ExitsEmptied(self) ==
    [self EXCEPT !.recent_exits = [z \in DOMAIN self.recent_exits |-> <<>>]]

\* the tracker with an exit of every track, at this instant, added to every zone
ExitsAdded(self) ==
    [self EXCEPT !.recent_exits =
        [z \in DOMAIN self.recent_exits |->
            self.recent_exits[z]
              \o <<[exit_time |-> now, event_id |-> uuid4(0), track_id |-> 0],
                   [exit_time |-> now, event_id |-> uuid4(0), track_id |-> 1]>>]]

\* the call of check_parking_entry with the input in on the tracker self
EntryCall(self, in) ==
    check_parking_entry(self, in[1], Detection(in[2], 0, 0), in[3],
                        ParkingThresholdSec, now, uuid4(uuids + 1))

\* the two calls agree in the result, the sessions and the seen sets
SameEntry(a, b) ==
    /\ a.ret = b.ret
    /\ a.self.zone_tracked_ids = b.self.zone_tracked_ids
    /\ a.self.seen_track_ids = b.self.seen_track_ids

\* C28: ParkingTracker states that differ only in recent_exits give the same
\* result for every check_parking_entry call and the same sessions and seen
\* sets afterwards; a track may re-enter a zone inside the cooldown window of
\* its exit.
C28_ExitsNeverGate ==
    \A in \in EntryInputs :
        /\ SameEntry(EntryCall(parking_tracker, in), EntryCall(ExitsEmptied(parking_tracker), in))
        /\ SameEntry(EntryCall(parking_tracker, in), EntryCall(ExitsAdded(parking_tracker), in))

\* the last call returned an entry for a track whose exit from the zone is
\* still inside the cooldown window
C28_Witness ==
    /\ ret.op = "check_parking_entry"
    /\ ret.result[1] = TRUE
    /\ \E i \in DOMAIN parking_tracker.recent_exits[ret.zone_name] :
           /\ parking_tracker.recent_exits[ret.zone_name][i].track_id = ret.track_id
           /\ now - parking_tracker.recent_exits[ret.zone_name][i].exit_time < ExitCooldownSec

----------------------------------------------------------------------------
(* Claims about point_in_polygon, checked under PolygonSpec *)

CentroidCall == ret.op = "point_in_polygon" /\ ret.point = "centroid"

----------------------------------------------------------------------------
(* Claims about the grouping of detections by zone, checked under GroupSpec *)

GroupCall == ret.op = "get_detections_in_any_zone_of_type"

\* the detection is in the bucket of the zone
InBucket(zones_to_detections, zone_name, detection) ==
    \E i \in DOMAIN ZoneGet(zones_to_detections, zone_name) :
        ZoneGet(zones_to_detections, zone_name)[i] = detection

\* the camera has a zone of this name and type that holds the centre of the detection
HeldBy(camera, zone_name, zone_type, detection) ==
    \E i \in DOMAIN camera_zones(camera) :
        /\ camera_zones(camera)[i].name = zone_name
        /\ camera_zones(camera)[i].type = zone_type
        /\ point_in_polygon(<<detection.cx, detection.cy>>, camera_zones(camera)[i].coordinates)

AllZoneNames == {"P1", "P2", "T1", "T2", "D1", "D2"}

\* C27: a detection with a track id is in the bucket of a zone exactly if the
\* zone is of the requested type, belongs to the camera and holds its centre;
\* a detection without a track id is in no bucket
C27_Grouping ==
    GroupCall =>
        \A i \in DOMAIN ret.detections : \A zone_name \in AllZoneNames :
            InBucket(ret.ret, zone_name, ret.detections[i])
                <=> /\ ~TrackIsNone(ret.detections[i])
                    /\ HeldBy(ret.camera_id, zone_name, ret.zone_type, ret.detections[i])

----------------------------------------------------------------------------
(* Claims about frames without track ids, checked under UntrackedSpec *)

\* the events of a sequence that are entries or double parkings
CausedEvents(evs) ==
    SelectSeq(evs, LAMBDA e :
        \/ e.event_type = "double_parking"
        \/ e.event_type = "parking_status" /\ e.parking_event_type = "entry")

\* the step is a frame all of whose detections lack a track id
UntrackedStep ==
    /\ FrameStep
    /\ ret'.detections # <<>>
    /\ \A i \in DOMAIN ret'.detections : TrackIsNone(ret'.detections[i])

\* C23: a frame's detections without a track id do not make the frame fail,
\* change no state of the StationaryTracker, open no session and add nothing
\* to a seen set of the ParkingTracker, leave the RedLightViolationTracker and
\* the double-parking dict as they were, and cause no event
C23_UntrackedIgnored ==
    [][UntrackedStep =>
        /\ video_raised' = "none"
        /\ stationary_tracker' = stationary_tracker
        /\ parking_tracker'.seen_track_ids = parking_tracker.seen_track_ids
        /\ \A zone_name \in DOMAIN parking_tracker'.zone_tracked_ids :
              /\ zone_name \in DOMAIN parking_tracker.zone_tracked_ids
              /\ DOMAIN parking_tracker'.zone_tracked_ids[zone_name]
                    \subseteq DOMAIN parking_tracker.zone_tracked_ids[zone_name]
        /\ red_light_violation_tracker' = red_light_violation_tracker
        /\ double_parking_violations' = double_parking_violations
        /\ CausedEvents(NewEvents) = <<>>]_vars

----------------------------------------------------------------------------
(* Claims about the frame loop, checked under RunnerSpec *)

\* the exit events of a sequence of events that carry the event id
ExitEventsOf(evs, event_id) ==
    {n \in DOMAIN evs :
        /\ evs[n].event_type = "parking_status"
        /\ evs[n].parking_event_type = "exit"
        /\ evs[n].event_id = event_id}

\* the track ids of the detections of the frame in the parking zone of the
\* camera with this name
TracksIn(detections, zone_name) ==
    {detections[i].track_id : i \in {j \in DOMAIN detections :
        /\ ~TrackIsNone(detections[j])
        /\ HeldBy(camera_id, zone_name, "parking", detections[j])}}

\* the session of the track in the zone is open in the tracker
IsOpen(self, zone_name, track_id) ==
    /\ zone_name \in DOMAIN self.zone_tracked_ids
    /\ track_id \in DOMAIN self.zone_tracked_ids[zone_name]

----------------------------------------------------------------------------
(* Claims about one runner on two cameras, checked under CamerasSpec *)

\* the camera of the entry event that carries the event id
OpenedOn(evs, event_id) ==
    {evs[n].camera_id : n \in {m \in DOMAIN evs :
        /\ evs[m].event_type = "parking_status"
        /\ evs[m].parking_event_type = "entry"
        /\ evs[m].event_id = event_id}}

\* C24: every exit event carries the camera id of the entry event of its
\* session; a frame of one camera leaves the sessions opened on another camera
\* and the last-emission frame of another camera as they were
C24_CameraIsolation ==
    [][FrameStep =>
        /\ \A n \in DOMAIN NewEvents :
              (NewEvents[n].event_type = "parking_status"
                  /\ NewEvents[n].parking_event_type = "exit")
                  => OpenedOn(events, NewEvents[n].event_id) = {NewEvents[n].camera_id}
        /\ \A zone_name \in DOMAIN parking_tracker.zone_tracked_ids :
              \A track_id \in DOMAIN parking_tracker.zone_tracked_ids[zone_name] :
                  OpenedOn(events, parking_tracker.zone_tracked_ids[zone_name][track_id].event_id)
                        # {camera_id}
                    => /\ IsOpen(parking_tracker', zone_name, track_id)
                       /\ parking_tracker'.zone_tracked_ids[zone_name][track_id]
                             = parking_tracker.zone_tracked_ids[zone_name][track_id]
        /\ \A other \in DOMAIN traffic_monitoring_tracker.last_event_frame \ {camera_id} :
              traffic_monitoring_tracker'.last_event_frame[other]
                  = traffic_monitoring_tracker.last_event_frame[other]]_vars

\* the double_parking events of a sequence of events
DoubleParkingEvents(evs) == SelectSeq(evs, LAMBDA e : e.event_type = "double_parking")

\* the detections of the frame in a double-parking zone of the camera with a
\* duration at or above the double-parking threshold
DoubleParked(detections) ==
    {i \in DOMAIN detections :
        /\ \E zone_name \in AllZoneNames :
              HeldBy(camera_id, zone_name, "double_parking", detections[i])
        /\ detections[i].stationary_duration_sec[1]
              >= DoubleParkingThresholdSec * detections[i].stationary_duration_sec[2]}

\* C26: a frame emits a double_parking event for a track exactly if the track
\* is in a double-parking zone with a duration at or above the threshold and
\* has no entry in the dict of this run, one event whatever the number of
\* zones, and enters the track in the dict; the dict loses no entry during a
\* run and is empty when a run starts
C26_OncePerRun ==
    /\ [][FrameStep =>
            LET new == DoubleParkingEvents(NewEvents)
                due == {TrackIdOr(ret'.detections[i]) : i \in DoubleParked(ret'.detections)}
                         \ DOMAIN double_parking_violations
            IN /\ {new[n].track_id : n \in DOMAIN new} = due
               /\ Len(new) = Cardinality(due)
               /\ DOMAIN double_parking_violations'
                     = DOMAIN double_parking_violations \cup due]_vars
    /\ [][ret'.op = "process_video" => double_parking_violations' = <<>>]_vars

\* the track of the last frame is double-parked, has its event from an earlier
\* frame of this run, and an earlier run had an event for it too
C26_Witness ==
    /\ ret.op = "process_frame"
    /\ DoubleParked(ret.detections) # {}
    /\ \E n, k \in DOMAIN events :
          /\ events[n].event_type = "double_parking"
          /\ events[k].event_type = "double_parking"
          /\ events[n].track_id = events[k].track_id
          /\ events[n].camera_id # events[k].camera_id
          /\ events[k].camera_id = camera_id
          /\ events[k].frame_number < frame_count

\* the traffic_monitoring events of a sequence of events
TrafficEventsOf(evs) == SelectSeq(evs, LAMBDA e : e.event_type = "traffic_monitoring")

\* the names of the traffic zones of the camera, in the order of the zone file
TrafficZones(camera) ==
    LET zones == SelectSeq(camera_zones(camera), LAMBDA zone : zone.type = "traffic")
    IN [i \in DOMAIN zones |-> zones[i].name]

\* C29: on a frame where should_send_event returns true there is exactly one
\* traffic_monitoring event per traffic zone of the camera, with vehicle_count
\* the number of detections of the frame in the zone, 0 included; on a frame
\* where it returns false there is none
C29_TrafficEvents ==
    [][FrameStep =>
        LET new == TrafficEventsOf(NewEvents)
            send == should_send_event(traffic_monitoring_tracker, camera_id, frame_count')
        IN IF send.ret
           THEN /\ [n \in DOMAIN new |-> new[n].zone_name] = TrafficZones(camera_id)
                /\ \A n \in DOMAIN new :
                      /\ new[n].camera_id = camera_id
                      /\ new[n].frame_number = frame_count'
                      /\ new[n].vehicle_count =
                            Cardinality({i \in DOMAIN ret'.detections :
                                HeldBy(camera_id, new[n].zone_name, "traffic",
                                       ret'.detections[i])})
           ELSE new = <<>>]_vars

\* the last frame sent an event for a traffic zone with a vehicle and one for
\* a traffic zone without
C29_Witness ==
    /\ ret.op = "process_frame"
    /\ \E n, k \in DOMAIN events :
          /\ events[n].event_type = "traffic_monitoring"
          /\ events[k].event_type = "traffic_monitoring"
          /\ events[n].frame_number = frame_count
          /\ events[k].frame_number = frame_count
          /\ events[n].vehicle_count = 1
          /\ events[k].vehicle_count = 0

----------------------------------------------------------------------------
(* Claims about zones with too few points, checked under ShortZoneSpec *)

\* C31: point_in_polygon returns false for every point against a polygon of
\* 0, 1 or 2 vertices, and is_past_stop_line returns false for every detection
\* against a line of fewer than 2 points
C31_ShortNeverMatched ==
    /\ (ret.op = "point_in_polygon" /\ Len(ret.polygon) < 3) => ~ret.ret
    /\ (ret.op = "is_past_stop_line" /\ Len(ret.stop_line_coords) < 2) => ~ret.ret

----------------------------------------------------------------------------
(* Claims about the frame loop with its deliveries, checked under DeliverySpec *)

\* the retry loop of the delivery has ended, in success or exhaustion
Ended(send) == send.result \in {"true", "false"}

\* the number of attempts and sleeps made so far for event n
Traffic(log, n) == Len(log[n].posts) + Len(log[n].sleeps)

\* C32: the attempts for an event start only after the retry loop of the event
\* emitted before it has ended in success or exhaustion, deliveries are begun
\* in the order of emission, and no frame is processed while a retry loop is
\* in flight
C32_Sequential ==
    [][/\ \A n \in DOMAIN send_log' :
            (n \notin DOMAIN send_log \/ Traffic(send_log', n) # Traffic(send_log, n))
                => /\ n = Len(send_log')
                   /\ n <= Len(events)
                   /\ \A k \in 1..(n - 1) : Ended(send_log'[k])
       /\ FrameStep =>
            /\ backend_sender.pc = "idle"
            /\ \A n \in DOMAIN events : n \in DOMAIN send_log /\ Ended(send_log[n])]_vars

\* a frame sent two events; the delivery of the first was given up after
\* max_retries attempts and the second is being retried
C32_Witness ==
    /\ Len(events) >= 2
    /\ Len(send_log) = Len(events)
    /\ events[Len(events)].frame_number = events[Len(events) - 1].frame_number
    /\ send_log[Len(events) - 1].result = "false"
    /\ Len(send_log[Len(events) - 1].posts) = MaxRetries
    /\ backend_sender.pc = "sleep"
    /\ send_log[Len(events)].result = "running"

----------------------------------------------------------------------------
(* Claims about the retry loop with any max_retries, checked under RetryLive *)

\* the larger of two numbers
Max(a, b) == IF a > b THEN a ELSE b

\* C33: send_event returns whatever the responses and errors are, after at most
\* max_retries attempts and at most max_retries - 1 sleeps; with max_retries = 0
\* it returns False without any attempt
C33_Terminates ==
    /\ [](\A n \in DOMAIN send_log :
            /\ Len(send_log[n].posts) <= max_retries
            /\ Len(send_log[n].sleeps) <= Max(max_retries - 1, 0)
            /\ max_retries = 0 => send_log[n].result # "true")
    /\ \A n \in 1..MaxEvents :
          (n \in DOMAIN send_log) ~> (n \in DOMAIN send_log /\ Ended(send_log[n]))

\* with max_retries = 0 an event was dropped without an attempt or a sleep
C33_Witness ==
    /\ max_retries = 0
    /\ send_log # <<>>
    /\ send_log[1] = [NewSend EXCEPT !.result = "false"]

----------------------------------------------------------------------------
(* Claims about the reference of a track, checked under StationarySpec *)

\* the detections of the step that are of the track
DetectionsOfTrack(detections, track_id) ==
    {i \in DOMAIN detections : detections[i].track_id = track_id}

\* C34: a call of update that reports the track as stationary is one within
\* epsilon of the recorded reference and leaves the reference position and
\* frame as they are; the reference of a track is written only by a call that
\* is the track's first or is more than epsilon from the reference, and that
\* call reports the track as moving
C34_ReferenceKept ==
    [][UpdateStep =>
        /\ \A i \in DOMAIN ret'.detections :
              LET det == ret'.detections[i]
                  track_id == det.track_id
              IN det.is_stationary =>
                    /\ track_id \in DOMAIN stationary_tracker.track_state
                    /\ Dist2(det.cx, det.cy,
                             stationary_tracker.track_state[track_id].last_x,
                             stationary_tracker.track_state[track_id].last_y)
                          <= EpsilonPx * EpsilonPx
                    /\ stationary_tracker'.track_state[track_id]
                          = stationary_tracker.track_state[track_id]
        /\ DOMAIN stationary_tracker.track_state \subseteq DOMAIN stationary_tracker'.track_state
        /\ \A track_id \in DOMAIN stationary_tracker'.track_state :
              LET first == track_id \notin DOMAIN stationary_tracker.track_state
                  state == stationary_tracker.track_state[track_id]
                  state_ == stationary_tracker'.track_state[track_id]
              IN (first \/ state_ # state) =>
                    \E i \in DetectionsOfTrack(ret'.detections, track_id) :
                        LET det == ret'.detections[i]
                        IN /\ ~det.is_stationary
                           /\ first \/ Dist2(det.cx, det.cy, state.last_x, state.last_y)
                                          > EpsilonPx * EpsilonPx
                           /\ state_ = [last_x |-> det.cx, last_y |-> det.cy,
                                        stationary_start_frame |-> frame_count']]_vars

\* a track is 10 px from where it was first seen, two frames or more later:
\* it is reported stationary since frame 0, its reference is the first sighting
C34_Witness ==
    /\ ret.op = "update"
    /\ video = 0
    /\ frame_count >= 2
    /\ \E i \in DOMAIN ret.detections :
        LET det == ret.detections[i]
            state == stationary_tracker.track_state[det.track_id]
        IN /\ det.is_stationary
           /\ state = [last_x |-> 0, last_y |-> 0, stationary_start_frame |-> 0]
           /\ det.cx = 6
           /\ det.stationary_duration_sec = Quot(frame_count, FPS)

----------------------------------------------------------------------------
(* Claims about the crossed marker, checked under RedLightSpec *)

\* C35: after a call of check_violation with a track id of 0 or more the track
\* is in crossed_vehicles exactly if vehicle_crossed_stop_line was true in the
\* call, red light or not, and the markers of the other tracks are as they
\* were; a call with a red light and the vehicle not past the line clears the
\* marker and returns no violation
C35_MarkerFollowsLine ==
    [][(ViolationStep /\ ret'.track_id >= 0)
        => /\ ret'.track_id \in DOMAIN red_light_violation_tracker'.crossed_vehicles
                <=> ret'.vehicle_crossed_stop_line
           /\ \A other \in TrackIds \ {ret'.track_id} :
                /\ other \in DOMAIN red_light_violation_tracker'.crossed_vehicles
                     <=> other \in DOMAIN red_light_violation_tracker.crossed_vehicles
                /\ other \in DOMAIN red_light_violation_tracker.crossed_vehicles
                     => red_light_violation_tracker'.crossed_vehicles[other]
                            = red_light_violation_tracker.crossed_vehicles[other]
           /\ (ret'.light_is_red /\ ~ret'.vehicle_crossed_stop_line)
                => /\ ret'.result = <<FALSE, None>>
                   /\ violations_log' = violations_log]_vars

\* the last call had a red light and a vehicle not past the line that was
\* flagged in this cooldown: it has no marker while another track has one
C35_Witness ==
    /\ ret.op = "check_violation"
    /\ ret.light_is_red
    /\ ~ret.vehicle_crossed_stop_line
    /\ ret.track_id >= 0
    /\ ret.track_id \in DOMAIN red_light_violation_tracker.violations
    /\ ret.track_id \notin DOMAIN red_light_violation_tracker.crossed_vehicles
    /\ red_light_violation_tracker.crossed_vehicles # <<>>

----------------------------------------------------------------------------
(* Claims about the exit records, checked under Spec *)

\* the entries check_parking_entry has returned so far for the zone with this
\* event id and track id
EntriesReturned(zone_name, event_id, track_id) ==
    {n \in DOMAIN sessions_log :
        /\ sessions_log[n].zone_name = zone_name
        /\ sessions_log[n].event_id = event_id
        /\ sessions_log[n].track_id = track_id}

\* C36: every exit record returned by check_parking_exit carries the event id
\* and the track id of an entry check_parking_entry returned before for the
\* zone, whose session was open when the call began; no event id is in more
\* than one exit record, of one call or of all calls
C36_ExitOfAnEntry ==
    /\ [][ExitStep =>
            /\ \A i \in DOMAIN ret'.result :
                  LET exit == ret'.result[i]
                      open == SessionsOf(parking_tracker, ret'.zone_name)
                  IN /\ EntriesReturned(ret'.zone_name, exit[1], exit[3]) # {}
                     /\ exit[3] \in DOMAIN open
                     /\ open[exit[3]].event_id = exit[1]
            /\ \A i, j \in DOMAIN ret'.result :
                  ret'.result[i][1] = ret'.result[j][1] => i = j]_vars
    /\ [](\A n \in DOMAIN sessions_log : sessions_log[n].exits <= 1)

\* one call returned the exit records of two sessions
C36_Witness ==
    /\ ret.op = "check_parking_exit"
    /\ Len(ret.result) = 2
    /\ \A n \in DOMAIN sessions_log : sessions_log[n].exits = 1

\* the tracks whose counter reaches exit_debounce_frames in the call
Confirmed(self, zone_name, present) ==
    {t \in DOMAIN SessionsOf(self, zone_name) :
        /\ t \notin present
        /\ SessionsOf(self, zone_name)[t].missing_frames + 1 >= ExitDebounceFrames}

\* the records of the zone's recent_exits, none for an unknown zone
RecentExits(self, zone_name) ==
    IF zone_name \in DOMAIN self.recent_exits THEN self.recent_exits[zone_name] ELSE <<>>

\* C37: the call of check_parking_exit in which the counter of a session
\* reaches exit_debounce_frames deletes the session, removes the track from the
\* seen set of the zone and appends a record with the session's event id to
\* the zone's recent_exits, whether or not the duration guard lets an exit
\* record be returned; the call appends no other record and removes none
C37_ClosedWhateverTheDuration ==
    [][ExitStep =>
        LET zone_name == ret'.zone_name
            closed == Confirmed(parking_tracker, zone_name, ret'.present)
            before == RecentExits(parking_tracker, zone_name)
            after == RecentExits(parking_tracker', zone_name)
            added == SubSeq(after, Len(before) + 1, Len(after))
        IN /\ SubSeq(after, 1, Len(before)) = before
           /\ Len(added) = Cardinality(closed)
           /\ \A t \in closed :
                 /\ t \notin DOMAIN SessionsOf(parking_tracker', zone_name)
                 /\ ~Seen(parking_tracker', zone_name, t)
                 /\ \E i \in DOMAIN added :
                       added[i] = [exit_time |-> now,
                                   event_id |-> SessionsOf(parking_tracker, zone_name)[t].event_id,
                                   track_id |-> t]
           /\ \A i \in DOMAIN ret'.result : ret'.result[i][3] \in closed]_vars

\* the last call closed two sessions, one of at least 30 s with an exit
\* record returned and one younger with none
C37_Witness ==
    /\ ret.op = "check_parking_exit"
    /\ Len(ret.result) = 1
    /\ \E n, k \in DOMAIN sessions_log :
          /\ sessions_log[n].closed /\ sessions_log[n].exits = 1
          /\ sessions_log[k].closed /\ sessions_log[k].exits = 0
          /\ sessions_log[k].zone_name = ret.zone_name
          /\ LET exits == RecentExits(parking_tracker, ret.zone_name)
             IN /\ Len(exits) >= 2
                /\ exits[Len(exits)].exit_time = now
                /\ exits[Len(exits) - 1].exit_time = now
                /\ sessions_log[k].event_id
                      \in {exits[Len(exits)].event_id, exits[Len(exits) - 1].event_id}

----------------------------------------------------------------------------
(* Claims about the entries and exits of one frame, checked under RunnerSpec *)

\* the parking events of a sequence of events of this kind
ParkingEvents(evs, parking_event_type) ==
    SelectSeq(evs, LAMBDA e : /\ e.event_type = "parking_status"
                              /\ e.parking_event_type = parking_event_type)

\* C38: a frame sends no parking entry event and parking exit event for the
\* same zone and track id: the session check_parking_entry creates on a frame
\* is open after the check_parking_exit of that frame, with its counter at 0
C38_NoEntryAndExit ==
    [][FrameStep =>
        LET entries == ParkingEvents(NewEvents, "entry")
            exits == ParkingEvents(NewEvents, "exit")
        IN \A n \in DOMAIN entries :
              LET zone_name == entries[n].zone_name
                  track_id == entries[n].track_ids[1]
              IN /\ \A k \in DOMAIN exits :
                       ~(exits[k].zone_name = zone_name /\ exits[k].track_id = track_id)
                 /\ IsOpen(parking_tracker', zone_name, track_id)
                 /\ parking_tracker'.zone_tracked_ids[zone_name][track_id]
                        = [entry_time |-> now, event_id |-> entries[n].event_id,
                           missing_frames |-> 0]]_vars

\* the last frame sent the entry of one track and the exit of another for the
\* same zone
C38_Witness ==
    /\ ret.op = "process_frame"
    /\ \E n, k \in DOMAIN events :
          /\ events[n].event_type = "parking_status"
          /\ events[k].event_type = "parking_status"
          /\ events[n].parking_event_type = "entry"
          /\ events[k].parking_event_type = "exit"
          /\ events[n].frame_number = frame_count
          /\ events[k].frame_number = frame_count
          /\ events[n].zone_name = events[k].zone_name
          /\ events[n].event_id # events[k].event_id

----------------------------------------------------------------------------
(* Claims about the track ids the frame loop takes as valid, checked under  *)
(* ValiditySpec                                                             *)

\* the detections of the frame with a track id that ParkingTracker accepts
AcceptedDetections(detections) ==
    {i \in DOMAIN detections :
        /\ ~TrackIsNone(detections[i])
        /\ detections[i].track_id >= 0}

\* C39: every detection of a frame with a track id of 0 or more is handed to
\* check_violation where the camera has a stop line, which records it as
\* crossed exactly if it is past the line, and a double_parking event and
\* the key it is deduplicated under carry the id of a track of the frame
C39_ValidIdsAgree ==
    [][FrameStep /\ video_raised' = "none" =>
        LET detections == ret'.detections
            accepted == AcceptedDetections(detections)
            stop_line_zone == get_zone_by_name(camera_id, "stop_line")
            new == DoubleParkingEvents(NewEvents)
        IN /\ stop_line_zone # None =>
                \A i \in accepted :
                    detections[i].track_id
                            \in DOMAIN red_light_violation_tracker'.crossed_vehicles
                        <=> is_past_stop_line(detections[i], stop_line_zone.coordinates,
                                              FrameH, FrameW)
           /\ \A n \in DOMAIN new :
                \E i \in accepted : detections[i].track_id = new[n].track_id
           /\ \A track_id \in DOMAIN double_parking_violations' : track_id >= 0]_vars

----------------------------------------------------------------------------
(* Claims about the tables of the ParkingTracker, checked under Spec *)

\* C40: the three tables of the ParkingTracker have the same zones, and the
\* seen set of every zone is the set of the tracks with an open session there
C40_TablesAgree ==
    /\ DOMAIN parking_tracker.zone_tracked_ids = DOMAIN parking_tracker.seen_track_ids
    /\ DOMAIN parking_tracker.seen_track_ids = DOMAIN parking_tracker.recent_exits
    /\ \A zone_name \in DOMAIN parking_tracker.zone_tracked_ids :
          parking_tracker.seen_track_ids[zone_name]
              = DOMAIN parking_tracker.zone_tracked_ids[zone_name]

\* the last call of check_parking_exit closed a session of a zone where
\* another track still has one, while some zone has no tables yet
C40_Witness ==
    /\ ret.op = "check_parking_exit"
    /\ ret.zone_name \in DOMAIN parking_tracker.zone_tracked_ids
    /\ parking_tracker.seen_track_ids[ret.zone_name] # {}
    /\ \E i \in DOMAIN parking_tracker.recent_exits[ret.zone_name] :
          /\ parking_tracker.recent_exits[ret.zone_name][i].exit_time = now
          /\ parking_tracker.recent_exits[ret.zone_name][i].track_id
                \notin parking_tracker.seen_track_ids[ret.zone_name]
    /\ \E zone_name \in Zones : zone_name \notin DOMAIN parking_tracker.zone_tracked_ids

====
